---- MODULE Spec2Model ----
(***************************************************************************)
(* Meeting orchestration engine and memory subsystem of my_cabinet.        *)
(*                                                                         *)
(*   - the Completion Scheduler (FlowControl.completeForRole and its       *)
(*     static promise chain FlowControl.completionQueue);                  *)
(*   - the stage state machine (FlowControl.executeStage, stages.ts);      *)
(*   - the drivers of one meeting: POST /:id/run, runMeeting, the          *)
(*     USER_RESPONSE socket handler and continueWithUserResponse;          *)
(*   - the summary and memory writes that end a run (MeetingSummarizer,    *)
(*     MemoryManager, MarkdownStore);                                      *)
(*   - ContextCompressor.compress and ContextRetriever.retrieveContext.    *)
(*                                                                         *)
(* JavaScript runs one callback at a time.  The points where the event     *)
(* loop can take another event are the provider validation of POST         *)
(* /:id/run, a generation call, the 500 ms pause between two stages and    *)
(* the summary writes.                                                     *)
(*                                                                         *)
(*   SchedSpec   the scheduler alone, under callers that submit and await  *)
(*               calls in any order, one promise reaction per step;        *)
(*   SchedLiveSpec  SchedSpec with the promise reactions that are ready    *)
(*               eventually run;                                           *)
(*   Spec        one meeting under every interleaving of run requests,     *)
(*               user responses, timers and generation outcomes;           *)
(*   SerialSpec  the same, when nothing arrives while a POST /:id/run      *)
(*               handler awaits the provider validation;                   *)
(*   NotifySpec  SerialSpec with a push notifier that is absent, delivers  *)
(*               or throws;                                                *)
(*   CompressSpec  compress and compressIfNeeded applied to every history  *)
(*               of the model;                                             *)
(*   RetrieveSpec  retrieveContext called with several cutoffs on one      *)
(*               store content and query;                                  *)
(*   SummarySpec generateMeetingSummaries called for completed meetings    *)
(*               on one markdown store;                                    *)
(*   TranscriptSpec  meeting.messages under the pushes of the drivers and  *)
(*               the context reads of executeDepartmentSpeeches;           *)
(*   SimulatorSpec  the scripted simulator of src/server: createMeeting    *)
(*               and runMeeting on one meeting of its store.               *)
(*                                                                         *)
(* meeting.messages is kept as its length: the code reads the contents     *)
(* only to build prompts.  An artifact is valued by the run or             *)
(* continuation that stored it (0: absent); the BRAIN analysis also says   *)
(* what its text is and whether it was parsed.                             *)
(***************************************************************************)
EXTENDS Integers, Sequences, FiniteSets, TLC

(***************************************************************************)
(* Bounds of the model.                                                    *)
(***************************************************************************)
MaxCallers == 3        \* SchedSpec: stage logics calling completeForRole
MaxRequests == 5       \* SchedSpec: generation calls submitted in a behaviour
MaxRunRequests == 2    \* POST /:id/run requests that pass the status check
MaxResponses == 1      \* USER_RESPONSE socket messages
MaxReruns == 0         \* SerialSpec: runs of the meeting after its first one
MaxMeetings == 2       \* SummarySpec: completed meetings
MaxDisagreements == 2  \* SummarySpec: disagreements of a BRAIN analysis
MaxSimulations == 2    \* SimulatorSpec: calls of the simulator's runMeeting on its meeting

VARIABLES
  completionQueue,     \* FlowControl.completionQueue: queue key -> last request chained (0: the resolved promise)
  reqs,                \* the tasks created by completeForRole, in submission order
  callerReq,           \* SchedSpec: caller -> the request it awaits (0: none)
  meeting,             \* the Meeting object held in the meetings map
  validating,          \* POST /:id/run handlers awaiting the provider validation
  runRequests,         \* POST /:id/run requests that passed the status check
  threads,             \* the runs and continuations started so far
  responses,           \* number of USER_RESPONSE messages received
  memories,            \* the markdown store: the calls of generateMeetingSummaries and the types of the records written
  history,             \* CompressSpec: the messages given to compress
  compressed,          \* CompressSpec: the list compress returned last
  passes,              \* CompressSpec: number of times compress was applied
  needed,              \* CompressSpec: whether compressIfNeeded was called on the history, and what it returned
  stored,              \* RetrieveSpec: the records of the markdown store, in listing order
  query,               \* RetrieveSpec: the MemoryQuery, without its cutoff
  retrieved,           \* RetrieveSpec: cutoff -> what retrieveContext returned for it
  packaged,            \* RetrieveSpec: cutoff -> what buildContextPackage returned and wrote for it
  meetings,            \* SummarySpec: the completed meetings, by id
  files,               \* SummarySpec: the files of the markdown store
  written,             \* SummarySpec: the memories generateMeetingSummaries has built and passed to the store
  notifier,            \* what a call of global.broadcastToMeeting does: absent, delivers or throws
  db                   \* SimulatorSpec: the store of the simulator in src/server

schedVars == <<completionQueue, reqs>>
meetingVars == <<meeting, validating, runRequests, threads, responses, memories>>
compressorVars == <<history, compressed, passes, needed>>
retrieverVars == <<stored, query, retrieved, packaged>>
summarizerVars == <<meetings, files, written>>
memoryVars == <<compressorVars, retrieverVars, summarizerVars>>
vars == <<completionQueue, reqs, callerReq, meeting, validating, runRequests, threads, responses, memories,
          memoryVars, notifier, db>>

\* compressIfNeeded has not been called.
NotCalled == [called |-> FALSE, messages |-> << >>]

Callers == 1 .. MaxCallers

Settled == {"ok", "failed"}

Min(a, b) == IF a <= b THEN a ELSE b

Range(seq) == {seq[i] : i \in 1 .. Len(seq)}

(***************************************************************************)
(* completeForRole                                                         *)
(***************************************************************************)

\* A chain kept per FlowControl instance instead of one per process.
QueueKeyPerInstance(caller) == caller

\* `private static completionQueue`: one chain for the whole process,
\* whichever FlowControl instance (getFlowControl() makes a new one for each
\* run and each continuation) the call comes through.
QueueKey(caller) == 0

\* The naive chain `queue = queue.then(run)`: a rejection skips run and is
\* handed down the chain.
DispatchNaive(outcome) == IF outcome = "failed" THEN "reject" ELSE "run"

\* task = completionQueue.then(run, run); completionQueue = task.then(() =>
\* undefined, () => undefined): the chain promise of a settled task is
\* always fulfilled, and both handlers of then() are run.
Dispatch(outcome) == "run"

\* The task is chained on a promise that is already resolved.
PredOfUnchained(queue, key) == 0

\* The promise the new task is chained on: the current value of the chain.
PredOf(queue, key) == IF key \in DOMAIN queue THEN queue[key] ELSE 0

\* Outcome of the promise task r is chained on ("pending" until it settles).
predOutcome(rq, r) ==
  IF rq[r].pred = 0 THEN "ok"
  ELSE IF rq[rq[r].pred].state \in Settled THEN rq[rq[r].pred].state
  ELSE "pending"

\* What is left of a task nothing refers to any more: its caller has taken
\* the result, the chain has moved on and no task is chained on it.
Gone == [caller |-> 0, pred |-> 0, state |-> "gone", err |-> 0, tokens |-> 0,
         kind |-> "plain", consumed |-> TRUE]

Collect(queue, rq) ==
  [r \in 1 .. Len(rq) |->
     IF /\ rq[r].consumed
        /\ \A k \in DOMAIN queue : queue[k] # r
        /\ \A r2 \in 1 .. Len(rq) : ~(rq[r2].state = "waiting" /\ rq[r2].pred = r)
       THEN Gone ELSE rq[r]]

\* The caller of task r has received its result.
Consume(rq, r) ==
  [rq EXCEPT ![r].consumed = TRUE, ![r].tokens = 0, ![r].kind = "plain", ![r].caller = 0,
             ![r].err = 0]

\* completeForRole(role, ...) called by `caller` with the chain `queue` and
\* the tasks `rq`: creates the task, chains it and makes it the new end of
\* the chain.
completeForRole(queue, rq, caller) ==
  LET key == QueueKey(caller)
      r == Len(rq) + 1
  IN [completionQueue |-> [k \in (DOMAIN queue) \cup {key} |-> IF k = key THEN r ELSE queue[k]],
      reqs |-> Append(rq, [caller |-> caller, pred |-> PredOf(queue, key),
                           state |-> "waiting", err |-> 0, tokens |-> 0, kind |-> "plain",
                           consumed |-> FALSE])]

\* The promise task r is chained on has settled: then() calls run (the
\* provider lookup and provider.complete start), or hands the rejection down.
dispatch(rq, r) ==
  IF Dispatch(predOutcome(rq, r)) = "run"
    THEN [rq EXCEPT ![r].state = "running", ![r].pred = 0]
    ELSE [rq EXCEPT ![r].state = "failed", ![r].err = rq[rq[r].pred].err, ![r].pred = 0]

Dispatchable(rq, r) ==
  /\ rq[r].state = "waiting"
  /\ predOutcome(rq, r) \in Settled

\* provider.complete resolves with a response costing `tokens`; `kind` is
\* what its text says to the stage that reads it.
settleOk(rq, r, tokens, kind) ==
  [rq EXCEPT ![r].state = "ok", ![r].tokens = tokens, ![r].kind = kind]

\* getRoleProvider or provider.complete rejects with the error err.
settleFail(rq, r, err) == [rq EXCEPT ![r].state = "failed", ![r].err = err]

SchedInit ==
  /\ completionQueue = [k \in {0} |-> 0]
  /\ reqs = << >>

(***************************************************************************)
(* stages.ts                                                               *)
(***************************************************************************)
\* enum MeetingStage, in declaration order (Object.values).
MeetingStage ==
  << "idle", "issue_brief", "department_speeches", "brain_intervention",
     "prime_summary", "follow_up_discussion", "prime_decision", "completed", "failed" >>

indexOf(seq, x) == CHOOSE i \in 1 .. Len(seq) : seq[i] = x

STAGE_CONFIGS ==
  [stage \in Range(MeetingStage) |->
     [canDegrade |-> stage \in {"brain_intervention", "follow_up_discussion"}]]

\* A successor function that never leaves the current stage.
getNextStageStuck(current) == current

getNextStage(current) ==
  MeetingStage[Min(indexOf(MeetingStage, current) + 1, Len(MeetingStage))]

getStageFlow ==
  << "issue_brief", "department_speeches", "brain_intervention",
     "prime_summary", "follow_up_discussion", "prime_decision" >>

\* A threshold of half the budget.
atHalf(usage, budget) == 10 * usage >= 5 * budget

\* usage >= budget * 0.9; usage and budget are whole numbers here, for which
\* the floating-point comparison and 10*usage >= 9*budget agree.
atNinetyPercent(usage, budget) == 10 * usage >= 9 * budget

\* The 90% test applied to every stage, the canDegrade flag ignored.
canSkipStageAnyStage(stage, usage, budget) == atNinetyPercent(usage, budget)

canSkipStage(stage, usage, budget) ==
  IF ~STAGE_CONFIGS[stage].canDegrade THEN FALSE
  ELSE atNinetyPercent(usage, budget)

\* The budget counted as exceeded only once usage is strictly above it.
shouldSkipToDecisionStrict(usage, budget) == usage > budget

shouldSkipToDecision(usage, budget) == usage >= budget

(***************************************************************************)
(* Inputs                                                                  *)
(***************************************************************************)
\* Budgets a meeting is created with (POST /api/meetings, body.budget).
Budgets == {0, 10, 16, 20, 40}

\* Budgets of the meetings whose requests overlap.
RaceBudgets == {0, 10}

\* Token cost of one response (response.usage.totalTokens, or the estimate).
TokenCosts == {3}

\* meeting.selectedRoleIds as normalizeSelectedRoles stores it.
RoleSelections == { <<"prime", "critic", "finance", "brain">> }

\* Tokens charged by the fallback of executeBrainIntervention.
FallbackTokens == 100

(***************************************************************************)
(* FlowControl: roles                                                      *)
(***************************************************************************)
toUpperCase ==
  [prime |-> "PRIME", brain |-> "BRAIN", clerk |-> "CLERK",
   critic |-> "CRITIC", finance |-> "FINANCE", works |-> "WORKS"]

getSelectedRoleIds(m) ==
  IF Len(m.selectedRoleIds) = 0 THEN <<"prime", "brain", "critic", "finance", "works">>
  ELSE m.selectedRoleIds

getDiscussionRoles(m) ==
  LET notStaff(role) == role \notin {"prime", "brain", "clerk"}
      kept == SelectSeq(getSelectedRoleIds(m), notStaff)
      roles == [i \in 1 .. Len(kept) |-> toUpperCase[kept[i]]]
  IN IF Len(roles) > 0 THEN roles ELSE <<"CRITIC", "FINANCE", "WORKS">>

\* A draw of every position among all the roles.
shuffleRolesWithReplacement(roles) == [1 .. Len(roles) -> Range(roles)]

\* The orders Math.random can make shuffleRoles return.
shuffleRoles(roles) ==
  { p \in [1 .. Len(roles) -> Range(roles)] : \A i, j \in 1 .. Len(roles) : i # j => p[i] # p[j] }

(***************************************************************************)
(* State handled by the code of one callback: s = [meeting, threads,       *)
(* completionQueue, reqs].  A thread is one asynchronous call of the POST  *)
(* /:id/run handler with its runMeeting ("run") or of                      *)
(* continueWithUserResponse ("cont"); pc is the await it is suspended at.  *)
(***************************************************************************)
Cur == [meeting |-> meeting, threads |-> threads,
        completionQueue |-> completionQueue, reqs |-> reqs]

\* The tasks nothing refers to any more are dropped, the others keep their
\* order.
Compact(s) ==
  LET rq == Collect(s.completionQueue, s.reqs)
      live(r) == rq[r].state # "gone"
      pos(r) == IF r = 0 \/ ~live(r) THEN 0 ELSE Cardinality({q \in 1 .. r : live(q)})
      kept == SelectSeq([r \in 1 .. Len(rq) |-> r], live)
  IN [s EXCEPT !.reqs = [i \in 1 .. Len(kept) |-> [rq[kept[i]] EXCEPT !.pred = pos(@)]],
               !.completionQueue = [k \in DOMAIN s.completionQueue |-> pos(s.completionQueue[k])],
               !.threads = [t \in 1 .. Len(s.threads) |->
                              [s.threads[t] EXCEPT !.req = pos(@)]]]

Becomes(s) ==
  LET c == Compact(s)
  IN /\ meeting' = c.meeting
     /\ threads' = c.threads
     /\ completionQueue' = c.completionQueue
     /\ reqs' = c.reqs

\* artifacts.brainAnalysis before BRAIN_INTERVENTION has stored one.
NoAnalysis == [by |-> 0, analysis |-> "", parsed |-> FALSE]

\* calls: the executeStage calls the thread has made, the last one being
\* the call it is in or has just left.
NewThread(kind, pc, prev, resp) ==
  [kind |-> kind, pc |-> pc, stage |-> "idle", idx |-> 0, out |-> << >>,
   roles |-> << >>, role |-> "", tokens |-> 0, req |-> 0, sub |-> "", art |-> NoAnalysis,
   prev |-> prev, resp |-> resp, calls |-> << >>, end |-> ""]

\* The locals of executeStage are gone once it has returned or thrown.
Leave(th) ==
  [th EXCEPT !.out = << >>, !.roles = << >>, !.role = "", !.tokens = 0,
             !.req = 0, !.sub = "", !.art = NoAnalysis]

\* What is left of a run or a continuation that has ended: how it ended.
Ended(th) ==
  [NewThread(th.kind, "done", "", th.resp) EXCEPT
     !.end = IF th.calls[Len(th.calls)].state = "threw" \/ th.pc = "caught"
               THEN "failed" ELSE "completed"]

LastCall(th) == th.calls[Len(th.calls)]

SetCall(s, t, call) ==
  [s EXCEPT !.threads[t].calls[Len(s.threads[t].calls)] = call]

\* `await this.completeForRole(role, ...)` in thread t.
awaitCompletion(s, t, role, sub) ==
  LET after == completeForRole(s.completionQueue, s.reqs, t)
      s1 == [s EXCEPT !.completionQueue = after.completionQueue,
                      !.reqs = after.reqs,
                      !.threads[t].pc = "await",
                      !.threads[t].req = Len(after.reqs),
                      !.threads[t].role = role,
                      !.threads[t].sub = sub]
  IN SetCall(s1, t, [LastCall(s1.threads[t]) EXCEPT !.gen = @ + 1])

(***************************************************************************)
(* meetingsController: finally and catch blocks                            *)
(***************************************************************************)
RECURSIVE executeStage(_, _, _, _)
RECURSIVE continueWithUserResponse(_, _, _, _)

\* The decision taken before the follow-up round.
ContinuationStagesReversed == << "prime_decision", "follow_up_discussion" >>

\* The stages a continuation goes through.
ContinuationStages == << "follow_up_discussion", "prime_decision" >>

\* if (pendingUserResponses.length > 0) continueWithUserResponse(shift())
replayPending(s, perm) ==
  IF Len(s.meeting.pendingUserResponses) > 0
    THEN continueWithUserResponse(
           [s EXCEPT !.meeting.pendingUserResponses = Tail(@)],
           Head(s.meeting.pendingUserResponses), FALSE, perm)
    ELSE s

runFinally(s, t, perm) ==
  replayPending([s EXCEPT !.meeting.isProcessing = FALSE, !.threads[t] = Ended(@)], perm)

contFinally(s, t, perm) ==
  replayPending([s EXCEPT !.meeting.isUserContinuationRunning = FALSE,
                          !.threads[t] = Ended(@)], perm)

\* A catch block that only logs the error.
runCatchLogsOnly(s, t, err, perm) == runFinally(s, t, perm)

runCatch(s, t, err, perm) ==
  runFinally([s EXCEPT !.meeting.status = "failed", !.meeting.error = err,
                       !.threads[t].pc = "caught"], t, perm)

contCatch(s, t, err, perm) == contFinally(s, t, perm)

\* An exception leaves executeStage in thread t.
stageThrew(s, t, err, perm) ==
  LET s0 == [s EXCEPT !.threads[t] = Leave(@)]
      s1 == SetCall(s0, t, [LastCall(s0.threads[t]) EXCEPT !.state = "threw"])
  IN IF s.threads[t].kind = "run" THEN runCatch(s1, t, err, perm)
     ELSE contCatch(s1, t, err, perm)

(***************************************************************************)
(* The drivers' code after `await flowControl.executeStage(...)`           *)
(***************************************************************************)
\* meeting.degradation = degradation, whatever the stage returned.
appendResultAlways(s, result) ==
  [s EXCEPT !.meeting.messages = @ + Len(result.messages),
            !.meeting.degradation = result.degradation]


appendResult(s, result) ==
  [s EXCEPT !.meeting.messages = @ + Len(result.messages),
            !.meeting.degradation =
               IF result.degradation # "none" THEN result.degradation ELSE @]

\* A continuation that leaves the meeting completed whatever it was.
restoredStatusCompleted(previousStatus) == "completed"

\* meeting.status = previousStatus === 'failed' ? 'failed' : 'completed'
restoredStatus(previousStatus) ==
  IF previousStatus = "failed" THEN "failed" ELSE "completed"

\* if (global.broadcastToMeeting) global.broadcastToMeeting(...): client.send
\* throws into the caller.
broadcastThrows == notifier = "throws"

\* runMeeting: the messages are appended and broadcast, then
\* currentStage = newStage and the 500 ms pause.  The catch block broadcasts
\* as well; what it throws leaves runMeeting after the finally block.
runStageReturned(s, t, result, perm) ==
  IF broadcastThrows THEN runCatch(appendResult(s, result), t, "send failed", perm)
  ELSE [appendResult(s, result) EXCEPT !.threads[t].stage = result.newStage,
                                        !.threads[t].pc = "pause"]

\* continueWithUserResponse: break on COMPLETED, else the next stage of the
\* list at once; after the loop the status is restored.
contStageReturned(s, t, result, perm) ==
  LET th == s.threads[t]
      s1 == appendResult(s, result)
  IN IF broadcastThrows
       THEN contCatch([s1 EXCEPT !.threads[t].pc = "caught"], t, "send failed", perm)
     ELSE IF result.newStage = "completed" \/ th.idx = Len(ContinuationStages)
       THEN contFinally(
              [s1 EXCEPT !.meeting.status = restoredStatus(th.prev)], t, perm)
       ELSE executeStage([s1 EXCEPT !.threads[t].idx = th.idx + 1], t,
                         ContinuationStages[th.idx + 1], perm)

\* executeStage returns `result` to the driver that awaits it.
stageReturned(s, t, result, perm) ==
  LET s0 == [s EXCEPT !.threads[t] = Leave(@)]
      s1 == SetCall(s0, t, [LastCall(s0.threads[t]) EXCEPT
                              !.state = "returned",
                              !.nmsgs = Len(result.messages),
                              !.brain =
                                 IF "BRAIN placeholder" \in Range(result.messages)
                                   THEN "placeholder"
                                 ELSE IF "BRAIN" \in Range(result.messages)
                                   THEN "response" ELSE "none",
                              !.newStage = result.newStage,
                              !.degradation = result.degradation])
  IN IF s.threads[t].kind = "run" THEN runStageReturned(s1, t, result, perm)
     ELSE contStageReturned(s1, t, result, perm)

(***************************************************************************)
(* FlowControl.executeStage                                                *)
(***************************************************************************)
\* The stage body up to its first generation call.
beginStage(s, t, stage, perm) ==
  CASE stage \in {"issue_brief", "prime_summary", "prime_decision"} ->
         awaitCompletion(s, t, "PRIME", "main")
    [] stage = "brain_intervention" ->
         awaitCompletion(s, t, "BRAIN", "main")
    [] stage \in {"department_speeches", "follow_up_discussion"} ->
         awaitCompletion([s EXCEPT !.threads[t].roles = Tail(perm)], t, Head(perm), "main")

\* The usage overwritten with the cost of the stage.
chargeOverwriting(usage, tokens) == tokens

\* meeting.usage += tokens
charge(usage, tokens) == usage + tokens

\* End of a case of the switch: the artifact is stored, the tokens are
\* charged and the result is returned.
stageDone(s, t, messages, artifact, value, tokens, perm) ==
  LET stage == s.threads[t].stage
      s1 == [s EXCEPT !.meeting.artifacts =
                         IF artifact = "none" THEN @ ELSE [@ EXCEPT ![artifact] = value],
                      !.meeting.usage = charge(@, tokens)]
      s2 == SetCall(s1, t, [LastCall(s1.threads[t]) EXCEPT !.charged = tokens,
                                                            !.stored = artifact])
  IN stageReturned(s2, t,
       [messages |-> messages,
        newStage |-> IF stage = "prime_decision" THEN "completed" ELSE getNextStage(stage),
        degradation |-> "none"], perm)

\* A clarification asked for whatever the analysis says.
clarificationAlways(kind, roles) == TRUE

\* analysis?.shouldIntervene && analysis?.clarificationNeeded?.role, the
\* role being one of the participating roles: `kind` is that role when the
\* parsed analysis names one; an analysis that was not parsed is null.
clarificationNeeded(kind, roles) == kind \in Range(roles)

\* The catch block of executeBrainIntervention.
brainFallback(s, t, err, perm) ==
  stageDone(s, t, <<"SYSTEM", "BRAIN placeholder">>, "brainAnalysis",
            [by |-> t, analysis |-> "failed", parsed |-> FALSE], FallbackTokens, perm)

\* The texts that hold one of the noResponseSignals.
Signals == {"NO_RESPONSE", "late NO_RESPONSE"}

\* enforceSpeechLimit keeps the first speechCharLimit characters of the text:
\* a signal after them is cut off.
enforceSpeechLimit(kind) == IF kind = "late NO_RESPONSE" THEN "plain" ELSE kind

\* noResponseSignals.some((signal) => content.includes(signal))
shouldSkip(content) == content = "NO_RESPONSE"

\* One more role of the loop of a discussion stage, or its end.
nextSpeaker(s, t, perm) ==
  LET th == s.threads[t]
  IN IF Len(th.roles) > 0
       THEN awaitCompletion([s EXCEPT !.threads[t].roles = Tail(@)], t, Head(th.roles), "main")
       ELSE stageDone(s, t, th.out, "none", 0, th.tokens, perm)

\* The generation call thread t awaits has settled: the rest of the stage
\* body up to its next generation call or its end.
resumeStage(s, t, perm) ==
  LET th == s.threads[t]
      r == th.req
      resp == s.reqs[r]
      ok == resp.state = "ok"
      got == [s EXCEPT !.reqs = Consume(@, r), !.threads[t].req = 0]
      read == IF th.stage = "brain_intervention" /\ th.sub = "main" /\ ok
                THEN SetCall(got, t, [LastCall(got.threads[t]) EXCEPT
                       !.parse = IF resp.kind = "unparsable" THEN "no" ELSE "yes"])
                ELSE got
      heard == IF th.stage = "follow_up_discussion" /\ resp.kind \in Signals
                 THEN SetCall(read, t, [LastCall(read.threads[t]) EXCEPT !.signals = @ + 1])
                 ELSE read
      taken == IF ok THEN heard
               ELSE SetCall(got, t, [LastCall(got.threads[t]) EXCEPT !.failed = TRUE])
      said == [taken EXCEPT !.threads[t].out = Append(@, th.role),
                            !.threads[t].tokens = @ + resp.tokens]
      silent == [taken EXCEPT !.threads[t].tokens = @ + resp.tokens]
  IN CASE th.stage = "issue_brief" ->
            IF ok THEN stageDone(said, t, said.threads[t].out, "issueBrief", t, resp.tokens, perm)
            ELSE stageThrew(taken, t, resp.err, perm)
       [] th.stage = "prime_summary" ->
            IF ok THEN stageDone(said, t, said.threads[t].out, "summary", t, resp.tokens, perm)
            ELSE stageThrew(taken, t, resp.err, perm)
       [] th.stage = "prime_decision" ->
            IF ok THEN stageDone(said, t, said.threads[t].out, "finalDecision", t, resp.tokens, perm)
            ELSE stageThrew(taken, t, resp.err, perm)
       [] th.stage = "department_speeches" ->
            IF ok THEN nextSpeaker(said, t, perm)
            ELSE stageThrew(taken, t, resp.err, perm)
       [] th.stage = "follow_up_discussion" ->
            IF ~ok THEN stageThrew(taken, t, resp.err, perm)
            ELSE IF shouldSkip(enforceSpeechLimit(resp.kind)) THEN nextSpeaker(silent, t, perm)
            ELSE nextSpeaker(said, t, perm)
       [] th.stage = "brain_intervention" /\ th.sub = "main" ->
            IF ~ok THEN brainFallback(taken, t, resp.err, perm)
            ELSE IF clarificationNeeded(resp.kind, getDiscussionRoles(s.meeting))
              THEN awaitCompletion(
                     [taken EXCEPT !.threads[t].out = Append(@, "BRAIN"),
                               !.threads[t].tokens = resp.tokens,
                               !.threads[t].art =
                                  [by |-> t, analysis |-> "response", parsed |-> TRUE]],
                     t, resp.kind, "clar")
              ELSE stageDone(said, t, said.threads[t].out, "brainAnalysis",
                             [by |-> t, analysis |-> "response",
                              parsed |-> resp.kind # "unparsable"], resp.tokens, perm)
       [] th.stage = "brain_intervention" /\ th.sub = "clar" ->
            IF ~ok THEN brainFallback(taken, t, resp.err, perm)
            ELSE stageDone(taken, t, Append(th.out, th.role), "brainAnalysis", th.art, th.tokens, perm)

executeStage(s, t, stage, perm) ==
  LET usage == s.meeting.usage
      budget == s.meeting.budget
      call == [stage |-> stage, usage |-> usage, gen |-> 0, failed |-> FALSE,
               state |-> "running", nmsgs |-> 0, brain |-> "none", parse |-> "none",
               signals |-> 0,
               charged |-> 0,
               stored |-> "none",
               newStage |-> stage, degradation |-> "none"]
      s1 == [s EXCEPT !.threads[t].stage = stage,
                      !.threads[t].calls = Append(@, call),
                      !.threads[t].out = << >>,
                      !.threads[t].roles = << >>,
                      !.threads[t].tokens = 0]
  IN IF shouldSkipToDecision(usage, budget) /\ stage # "prime_decision"
       THEN stageReturned(s1, t, [messages |-> << >>, newStage |-> "prime_decision",
                                  degradation |-> "severe"], perm)
     ELSE IF canSkipStage(stage, usage, budget) /\ stage # "prime_decision"
       THEN stageReturned(s1, t, [messages |-> << >>, newStage |-> getNextStage(stage),
                                  degradation |-> "partial"], perm)
     ELSE beginStage([s1 EXCEPT !.threads[t].out = <<"SYSTEM">>], t, stage, perm)

(***************************************************************************)
(* meetingsController.continueWithUserResponse                             *)
(***************************************************************************)
continueWithUserResponse(s, resp, blank, perm) ==
  IF blank THEN s
  ELSE IF s.meeting.isProcessing \/ s.meeting.isUserContinuationRunning
    THEN [s EXCEPT !.meeting.pendingUserResponses = Append(@, resp)]
  ELSE LET t == Len(s.threads) + 1
           th == [NewThread("cont", "await", s.meeting.status, resp) EXCEPT !.idx = 1]
           s1 == [s EXCEPT !.meeting.isUserContinuationRunning = TRUE,
                           !.meeting.status = "running",
                           !.threads = Append(@, th)]
       IN executeStage(s1, t, ContinuationStages[1], perm)

\* runMeeting up to its first await.
runMeeting(s, t, perm) ==
  executeStage([s EXCEPT !.meeting.isProcessing = TRUE], t, "issue_brief", perm)

(***************************************************************************)
(* Promise reactions run before the event loop takes its next event: a     *)
(* thread whose awaited task has settled goes on, and a task whose         *)
(* predecessor has settled is started.  An action of Spec is one event     *)
(* (a request, a socket message, a timer, the completion of a provider     *)
(* call or of a file write) with the reactions it sets off.                *)
(***************************************************************************)
Resumable(s, t) ==
  /\ s.threads[t].pc = "await"
  /\ s.reqs[s.threads[t].req].state \in Settled

RECURSIVE react(_, _)
react(s, perm) ==
  IF \E t \in 1 .. Len(s.threads) : Resumable(s, t)
    THEN LET t == CHOOSE t \in 1 .. Len(s.threads) :
                    Resumable(s, t) /\ \A u \in 1 .. t - 1 : ~Resumable(s, u)
         IN react(resumeStage(s, t, perm), perm)
  ELSE IF \E r \in 1 .. Len(s.reqs) : Dispatchable(s.reqs, r)
    THEN LET r == CHOOSE r \in 1 .. Len(s.reqs) :
                    Dispatchable(s.reqs, r) /\ \A q \in 1 .. r - 1 : ~Dispatchable(s.reqs, q)
         IN react([s EXCEPT !.reqs = dispatch(@, r)], perm)
  ELSE s

\* The event has the effect s; its reactions follow.
Event(s, perm) == Becomes(react(s, perm))

(***************************************************************************)
(* Spec: one meeting, its run requests and its user responses              *)
(***************************************************************************)
Threads == 1 .. Len(threads)

\* What the text of the response to task r can say to the stage that reads
\* it: a BRAIN analysis may ask a role for a clarification, a role of the
\* follow-up round may decline to speak, with the signal among the first
\* speechCharLimit characters of its text or after them.
ResponseKinds(r) ==
  LET th == threads[reqs[r].caller]
  IN IF th.stage = "brain_intervention" /\ th.sub = "main"
       THEN {"plain", "unparsable"} \cup Range(getDiscussionRoles(meeting))
     ELSE IF th.stage = "follow_up_discussion" THEN {"plain", "NO_RESPONSE", "late NO_RESPONSE"}
     ELSE {"plain"}

Orders == shuffleRoles(getDiscussionRoles(meeting))

\* The orders that matter to an event that starts no stage itself: it
\* reaches shuffleRoles only by replaying a pending user response.
ReplayOrders ==
  IF Len(meeting.pendingUserResponses) > 0 THEN Orders
  ELSE {getDiscussionRoles(meeting)}

\* The store before anything is written for the meeting.
NoMemories == [calls |-> 0, records |-> {}]

\* The writes that throw in the model: the first one of
\* generateMeetingSummaries, and the one after the meeting summary and the
\* decision are written.
FailurePoints == {0, 2}

\* resetDb: the store of the simulator holds nothing.
emptyDb == [meetings |-> << >>, messages |-> << >>, llm_calls |-> << >>, meeting_artifacts |-> << >>]

\* No meeting is handed to the summarizer.
SummarizerIdle ==
  /\ meetings = << >>
  /\ files = {}
  /\ written = {}

\* The compressor, the retriever and the summarizer have not been called.
MemoryIdle ==
  /\ SummarizerIdle
  /\ history = << >>
  /\ compressed = << >>
  /\ passes = 0
  /\ needed = NotCalled
  /\ stored = << >>
  /\ query = [topic |-> FALSE, roles |-> << >>, types |-> {}]
  /\ retrieved = << >>
  /\ packaged = << >>

\* POST /api/meetings
NewMeeting(budget, selectedRoleIds) ==
  [status |-> "pending", budget |-> budget, usage |-> 0, degradation |-> "none",
   messages |-> 0, selectedRoleIds |-> selectedRoleIds,
   artifacts |-> [issueBrief |-> 0, brainAnalysis |-> NoAnalysis, summary |-> 0,
                  finalDecision |-> 0],
   isProcessing |-> FALSE, isUserContinuationRunning |-> FALSE,
   pendingUserResponses |-> << >>, error |-> ""]

\* POST /:id/run up to the provider validation: the status is checked.
PostRun ==
  /\ runRequests < MaxRunRequests
  /\ meeting.status \notin {"running", "completed"}
  /\ validating' = validating + 1
  /\ runRequests' = runRequests + 1
  /\ UNCHANGED <<meeting, threads, completionQueue, reqs, responses, callerReq, memories>>
  /\ UNCHANGED <<memoryVars, notifier, db>>

\* POST /:id/run: a provider is not configured, 400 is returned.
PostRunRefused ==
  /\ validating > 0
  /\ validating' = validating - 1
  /\ UNCHANGED <<meeting, threads, runRequests, completionQueue, reqs, responses, callerReq, memories>>
  /\ UNCHANGED <<memoryVars, notifier, db>>

\* POST /:id/run after the validation: the meeting is marked running and
\* runMeeting is called.
PostRunStart(perm) ==
  /\ validating > 0
  /\ validating' = validating - 1
  /\ LET t == Len(threads) + 1
         s == [Cur EXCEPT !.meeting.status = "running",
                          !.threads = Append(@, NewThread("run", "pause", "", 0))]
     IN Event(runMeeting(s, t, perm), perm)
  /\ UNCHANGED <<runRequests, responses, callerReq, memories>>
  /\ UNCHANGED <<memoryVars, notifier, db>>

\* runMeeting after the pause: the loop condition, then the next stage or
\* the end of the loop.
RunLoop(t, perm) ==
  /\ threads[t].pc = "pause"
  /\ IF threads[t].stage \in {"completed", "failed"}
       THEN /\ Event([Cur EXCEPT !.meeting.status = "completed",
                                 !.threads[t].pc = "summarizing"], perm)
            /\ memories' = [memories EXCEPT !.calls = @ + 1]
       ELSE /\ Event(executeStage(Cur, t, threads[t].stage, perm), perm)
            /\ UNCHANGED memories
  /\ UNCHANGED <<validating, runRequests, responses, callerReq>>
  /\ UNCHANGED <<memoryVars, notifier, db>>

\* brainAnalysis.disagreements.length: a parsed analysis of the model lists
\* one disagreement, an unparsed one and the fallback list none.
disagreements(brainAnalysis) == IF brainAnalysis.parsed THEN 1 ELSE 0

\* extractLearnings: one learning for a high usage, one for a degradation.
learnings(m) ==
  (IF m.usage * 10 > m.budget * 9 THEN << "learning" >> ELSE << >>)
    \o (IF m.degradation # "none" THEN << "learning" >> ELSE << >>)

\* The writeMemory calls of generateMeetingSummaries, createSessionMemory
\* and extractLearnings, in their order, by record type.
memoryWrites(m) ==
  << "meeting_summary" >>
    \o (IF m.artifacts.finalDecision # 0 THEN << "decision" >> ELSE << >>)
    \o [i \in 1 .. disagreements(m.artifacts.brainAnalysis) |-> "controversy"]
    \o << "session" >>
    \o learnings(m)

\* The store after the first k of the writes.
writeMemory(store, writes, k) ==
  [store EXCEPT !.records = @ \cup {writes[i] : i \in 1 .. k}]

\* The summaries, the session memory and the learnings are written.
SummariesWritten(t, perm) ==
  /\ threads[t].pc = "summarizing"
  /\ IF broadcastThrows THEN Event(runCatch(Cur, t, "send failed", perm), perm)
     ELSE Event(runFinally(Cur, t, perm), perm)
  /\ memories' = writeMemory(memories, memoryWrites(meeting), Len(memoryWrites(meeting)))
  /\ UNCHANGED <<validating, runRequests, responses, callerReq>>
  /\ UNCHANGED <<memoryVars, notifier, db>>

\* The write after the first k throws.
SummariesFailed(t, k, perm) ==
  /\ threads[t].pc = "summarizing"
  /\ k < Len(memoryWrites(meeting))
  /\ Event(runCatch(Cur, t, "summaries failed", perm), perm)
  /\ memories' = writeMemory(memories, memoryWrites(meeting), k)
  /\ UNCHANGED <<validating, runRequests, responses, callerReq>>
  /\ UNCHANGED <<memoryVars, notifier, db>>

\* USER_RESPONSE on the socket: the message is appended and broadcast, then
\* continueWithUserResponse is called; what the broadcast throws is caught
\* by the handler before that call.
UserResponse(blank, perm) ==
  /\ responses < MaxResponses
  /\ responses' = responses + 1
  /\ IF broadcastThrows THEN Event([Cur EXCEPT !.meeting.messages = @ + 1], perm)
     ELSE Event(continueWithUserResponse(
                  [Cur EXCEPT !.meeting.messages = @ + 1],
                  responses + 1, blank, perm), perm)
  /\ UNCHANGED <<validating, runRequests, callerReq, memories>>
  /\ UNCHANGED <<memoryVars, notifier, db>>

\* provider.complete resolves.
GenerationSucceeds(r, tokens, kind, perm) ==
  /\ reqs[r].state = "running"
  /\ kind \in ResponseKinds(r)
  /\ Event([Cur EXCEPT !.reqs = settleOk(@, r, tokens, kind)], perm)
  /\ UNCHANGED <<validating, runRequests, responses, callerReq, memories>>
  /\ UNCHANGED <<memoryVars, notifier, db>>

\* getRoleProvider or provider.complete rejects.
GenerationFails(r, perm) ==
  /\ reqs[r].state = "running"
  /\ Event([Cur EXCEPT !.reqs = settleFail(@, r, "generation failed")], perm)
  /\ UNCHANGED <<validating, runRequests, responses, callerReq, memories>>
  /\ UNCHANGED <<memoryVars, notifier, db>>

\* POST /api/meetings has created the meeting.
Created(budgets) ==
  /\ SchedInit
  /\ callerReq = [c \in Callers |-> 0]
  /\ \E budget \in budgets, roles \in RoleSelections : meeting = NewMeeting(budget, roles)
  /\ validating = 0
  /\ runRequests = 0
  /\ threads = << >>
  /\ responses = 0
  /\ memories = NoMemories
  /\ MemoryIdle
  /\ db = emptyDb

\* The observers' sockets take what is sent to them.
InitWith(budgets) == Created(budgets) /\ notifier = "delivers"

AllKinds == {"plain", "unparsable", "NO_RESPONSE", "late NO_RESPONSE", "CRITIC", "FINANCE", "WORKS"}

Next ==
  \/ PostRun
  \/ PostRunRefused
  \/ \E perm \in ReplayOrders : PostRunStart(perm)
  \/ \E t \in Threads, perm \in Orders : RunLoop(t, perm)
  \/ \E t \in Threads, perm \in ReplayOrders : SummariesWritten(t, perm)
  \/ \E t \in Threads, k \in FailurePoints, perm \in ReplayOrders : SummariesFailed(t, k, perm)
  \/ \E blank \in BOOLEAN, perm \in Orders : UserResponse(blank, perm)
  \/ \E r \in 1 .. Len(reqs), tokens \in TokenCosts, kind \in AllKinds, perm \in ReplayOrders :
       GenerationSucceeds(r, tokens, kind, perm)
  \/ \E r \in 1 .. Len(reqs), perm \in ReplayOrders : GenerationFails(r, perm)

Init == InitWith(RaceBudgets)

Spec == Init /\ [][Next]_vars

(***************************************************************************)
(* SerialSpec: the same program when no request and no socket message      *)
(* arrives while a POST /:id/run handler awaits the provider validation.   *)
(***************************************************************************)
Quiet == validating = 0

\* POST /:id/run on a meeting that was run before.
SerialPostRun ==
  /\ Quiet
  /\ runRequests <= MaxReruns
  /\ PostRun

SerialInit == InitWith(Budgets)

SerialNext ==
  \/ SerialPostRun
  \/ PostRunRefused
  \/ \E perm \in ReplayOrders : PostRunStart(perm)
  \/ \E t \in Threads, perm \in Orders : RunLoop(t, perm)
  \/ \E t \in Threads, perm \in ReplayOrders : SummariesWritten(t, perm)
  \/ \E t \in Threads, k \in FailurePoints, perm \in ReplayOrders : SummariesFailed(t, k, perm)
  \/ \E blank \in BOOLEAN, perm \in Orders : Quiet /\ UserResponse(blank, perm)
  \/ \E r \in 1 .. Len(reqs), tokens \in TokenCosts, kind \in AllKinds, perm \in ReplayOrders :
       GenerationSucceeds(r, tokens, kind, perm)
  \/ \E r \in 1 .. Len(reqs), perm \in ReplayOrders : GenerationFails(r, perm)

SerialSpec == SerialInit /\ [][SerialNext]_vars

(***************************************************************************)
(* NotifySpec: the runs of SerialSpec with a push notifier that is absent  *)
(* (global.broadcastToMeeting undefined, or no observer of the meeting),   *)
(* that delivers, or whose send throws at every attempt.                   *)
(***************************************************************************)
Notifiers == {"absent", "delivers", "throws"}

NotifyInit == Created(Budgets) /\ notifier \in Notifiers

NotifySpec == NotifyInit /\ [][SerialNext]_vars

(***************************************************************************)
(* SchedSpec: the scheduler under its most general callers.  A caller is   *)
(* one stage logic (a run or a continuation of some meeting, through its   *)
(* own FlowControl instance); it awaits each call before the next one.     *)
(***************************************************************************)
CallerSubmit(c) ==
  /\ callerReq[c] = 0
  /\ Len(reqs) < MaxRequests
  /\ LET after == completeForRole(completionQueue, reqs, c)
     IN /\ reqs' = Collect(after.completionQueue, after.reqs)
        /\ completionQueue' = after.completionQueue
  /\ callerReq' = [callerReq EXCEPT ![c] = Len(reqs) + 1]
  /\ UNCHANGED meetingVars
  /\ UNCHANGED <<memoryVars, notifier, db>>

CallerResume(c) ==
  /\ callerReq[c] # 0
  /\ reqs[callerReq[c]].state \in Settled
  /\ callerReq' = [callerReq EXCEPT ![c] = 0]
  /\ reqs' = Collect(completionQueue, Consume(reqs, callerReq[c]))
  /\ UNCHANGED <<completionQueue, meetingVars>>
  /\ UNCHANGED <<memoryVars, notifier, db>>

Start(r) ==
  /\ r \in 1 .. Len(reqs)
  /\ Dispatchable(reqs, r)
  /\ reqs' = Collect(completionQueue, dispatch(reqs, r))
  /\ UNCHANGED <<completionQueue, callerReq, meetingVars>>
  /\ UNCHANGED <<memoryVars, notifier, db>>

SettleOk(r) ==
  /\ r \in 1 .. Len(reqs)
  /\ reqs[r].state = "running"
  /\ reqs' = settleOk(reqs, r, 1, "plain")
  /\ UNCHANGED <<completionQueue, callerReq, meetingVars>>
  /\ UNCHANGED <<memoryVars, notifier, db>>

SettleFail(r) ==
  /\ r \in 1 .. Len(reqs)
  /\ reqs[r].state = "running"
  /\ reqs' = settleFail(reqs, r, r)
  /\ UNCHANGED <<completionQueue, callerReq, meetingVars>>
  /\ UNCHANGED <<memoryVars, notifier, db>>

SchedSpecInit ==
  /\ SchedInit
  /\ notifier = "delivers"
  /\ callerReq = [c \in Callers |-> 0]
  /\ meeting = NewMeeting(0, << >>)
  /\ validating = 0
  /\ runRequests = 0
  /\ threads = << >>
  /\ responses = 0
  /\ memories = NoMemories
  /\ MemoryIdle
  /\ db = emptyDb

SchedNext ==
  \/ \E c \in Callers : CallerSubmit(c)
  \/ \E c \in Callers : CallerResume(c)
  \/ \E r \in 1 .. MaxRequests : Start(r)
  \/ \E r \in 1 .. MaxRequests : SettleOk(r)
  \/ \E r \in 1 .. MaxRequests : SettleFail(r)

SchedSpec == SchedSpecInit /\ [][SchedNext]_vars

(***************************************************************************)
(* Properties                                                              *)
(***************************************************************************)
\* The executeStage calls on record: thread t, its i-th call.
CallIds == UNION {{<<t, i>> : i \in 1 .. Len(threads[t].calls)} : t \in Threads}

CallAt(x) == threads[x[1]].calls[x[2]]

\* The call was left at the budget check: nothing was generated, appended,
\* charged or stored.
NotExecuted(c) ==
  /\ c.state = "returned"
  /\ c.gen = 0
  /\ c.nmsgs = 0
  /\ c.charged = 0
  /\ c.stored = "none"

FlowIndex(stage) == indexOf(getStageFlow, stage)

\* C1 (forced decision): an executeStage call for a stage other than
\* PRIME_DECISION made when usage >= budget makes no generation call,
\* returns no message, leaves the usage unchanged and returns PRIME_DECISION
\* with degradation severe; the next call of the driver is for
\* PRIME_DECISION, and a PRIME_DECISION call always reaches its generation
\* call, whatever the budget.
C1_ForcedDecision ==
  \A x \in CallIds :
    LET c == CallAt(x)
        th == threads[x[1]]
    IN /\ (c.stage # "prime_decision" /\ c.usage >= meeting.budget) =>
            /\ NotExecuted(c)
            /\ c.newStage = "prime_decision"
            /\ c.degradation = "severe"
            /\ IF x[2] < Len(th.calls) THEN th.calls[x[2] + 1].stage = "prime_decision"
               ELSE th.pc = "pause" /\ th.stage = "prime_decision"
       /\ c.stage = "prime_decision" => c.gen >= 1 /\ c.degradation = "none"

\* A run over budget was sent to PRIME_DECISION, which was executed.
C1_Witness ==
  \E x \in CallIds :
    LET th == threads[x[1]]
    IN /\ meeting.budget > 0
       /\ x[2] < Len(th.calls)
       /\ CallAt(x).stage = "prime_summary"
       /\ CallAt(x).usage >= meeting.budget
       /\ CallAt(x).degradation = "severe"
       /\ th.calls[x[2] + 1].stage = "prime_decision"
       /\ th.calls[x[2] + 1].usage >= meeting.budget
       /\ th.calls[x[2] + 1].state = "returned"
       /\ th.calls[x[2] + 1].gen = 1

C3_ForwardOnly ==
  \A t \in Threads :
    LET th == threads[t]
        n == Len(th.calls)
    IN th.kind = "run" /\ th.pc # "done" =>
         /\ \A i \in 1 .. n : th.calls[i].stage \in Range(getStageFlow)
         /\ \A i, j \in 1 .. n :
              i < j => FlowIndex(th.calls[i].stage) < FlowIndex(th.calls[j].stage)
         /\ th.pc = "pause" =>
              /\ th.stage \in Range(getStageFlow) \cup {"completed"}
              /\ indexOf(MeetingStage, th.stage) > indexOf(MeetingStage, th.calls[n].stage)
         /\ th.pc = "summarizing" =>
              /\ th.stage = "completed"
              /\ th.calls[n].stage = "prime_decision"
              /\ th.calls[n].state = "returned"

\* A run has gone through the six stages and left its loop.
C3_Witness ==
  \E t \in Threads :
    /\ threads[t].kind = "run"
    /\ threads[t].pc = "summarizing"
    /\ Len(threads[t].calls) = 6
    /\ \A i \in 1 .. 6 : threads[t].calls[i].gen >= 1

Running == {r \in 1 .. Len(reqs) : reqs[r].state = "running"}

\* C4 (global mutual exclusion): at most one generation call issued through
\* completeForRole is in flight, whichever callers submitted the calls.
C4_OneInFlight == Cardinality(Running) <= 1

\* A call is in flight while calls of two other callers wait.
C4_Witness ==
  /\ Len(reqs) >= 3
  /\ reqs[Len(reqs) - 2].state = "running"
  /\ reqs[Len(reqs) - 1].state = "waiting"
  /\ reqs[Len(reqs)].state = "waiting"

\* C5 (FIFO order): a request that has started was submitted before every
\* request that has not, and every request submitted before it has settled.
C5_Fifo ==
  \A q, r \in 1 .. Len(reqs) :
    (q < r /\ reqs[r].state \in {"running", "ok", "failed"}) =>
      reqs[q].state \in {"ok", "failed", "gone"}

\* The second of three requests is in flight after the first has failed.
C5_Witness ==
  /\ Len(reqs) >= 3
  /\ reqs[1].state = "failed"
  /\ reqs[2].state = "running"
  /\ reqs[3].state = "waiting"

\* C6 (failures stay with their caller): a failed request has failed with
\* the error of its own generation call, and a waiting request whose
\* predecessors have all settled can start, whether they failed or not.
C6_FailureIsolated ==
  \A r \in 1 .. Len(reqs) :
    /\ (reqs[r].state = "failed" /\ ~reqs[r].consumed) => reqs[r].err = r
    /\ (reqs[r].state = "waiting"
          /\ \A q \in 1 .. r - 1 : reqs[q].state \in {"ok", "failed", "gone"}) =>
         /\ Dispatchable(reqs, r)
         /\ dispatch(reqs, r)[r].state = "running"

\* After a failed request, the next one has run and succeeded and a third
\* one has failed on its own.
C6_Witness ==
  /\ Len(reqs) >= 3
  /\ reqs[1].state = "failed" /\ reqs[1].err = 1
  /\ reqs[2].state = "ok" /\ ~reqs[2].consumed
  /\ reqs[3].state = "failed" /\ reqs[3].err = 3

InStage == {t \in Threads : threads[t].pc = "await"}

ActiveRuns == {t \in Threads : threads[t].kind = "run" /\ threads[t].pc # "done"}

\* C7 (no overlap): at most one run or continuation of the meeting is
\* inside executeStage, and at most one primary run is active.
C7_NoOverlap ==
  /\ Cardinality(InStage) <= 1
  /\ Cardinality(ActiveRuns) <= 1

Started == {t \in 1 .. Len(threads') : t > Len(threads)}

\* C8 (continuation queueing): a continuation starts only when no run and
\* no other continuation of the meeting is in progress; the queue holds the
\* responses in arrival order and none that has been started; the
\* continuations are started in arrival order.
C8_Queueing ==
  [][/\ \A t \in Started :
          threads'[t].kind = "cont" =>
            \A u \in 1 .. Len(threads') : u # t => threads'[u].pc = "done"
     /\ LET q == meeting'.pendingUserResponses
        IN /\ \A i, j \in 1 .. Len(q) : i < j => q[i] < q[j]
           /\ \A i \in 1 .. Len(q), t \in 1 .. Len(threads') :
                threads'[t].kind = "cont" => threads'[t].resp # q[i]
     /\ \A t, u \in 1 .. Len(threads') :
          (t < u /\ threads'[t].kind = "cont" /\ threads'[u].kind = "cont") =>
            threads'[t].resp < threads'[u].resp]_vars

LateContinuation(th) == th.kind = "cont" /\ th.pc # "done" /\ th.prev = "completed"

\* C9 (late-arrival continuation): a continuation started on a completed
\* meeting calls executeStage for FOLLOW_UP_DISCUSSION, then, once that call
\* has returned, for PRIME_DECISION, and makes no other call; the
\* PRIME_DECISION call reaches its generation call; when the continuation
\* ends without a failure the final decision is the one it has made and the
\* status is completed (a queued response then starts from completed).
C9_LateContinuation ==
  [][\A t \in 1 .. Len(threads') :
       /\ LateContinuation(threads'[t]) =>
            LET calls == threads'[t].calls
            IN /\ Len(calls) \in {1, 2}
               /\ calls[1].stage = "follow_up_discussion"
               /\ Len(calls) = 1 => calls[1].state = "running"
               /\ Len(calls) = 2 =>
                    /\ calls[1].state = "returned"
                    /\ calls[2].stage = "prime_decision"
                    /\ calls[2].gen = 1
       /\ (t <= Len(threads) /\ LateContinuation(threads[t])
             /\ threads'[t].pc = "done" /\ threads'[t].end = "completed") =>
            /\ meeting'.artifacts.finalDecision = t
            /\ IF Started = {} THEN meeting'.status = "completed"
               ELSE \A u \in Started : threads'[u].prev = "completed"]_vars

\* After a completed run, a continuation has skipped to the decision, made
\* it, and left the meeting completed.
C9_Witness ==
  /\ Len(threads) = 2
  /\ threads[1].kind = "run" /\ threads[1].end = "completed"
  /\ threads[2].kind = "cont" /\ threads[2].end = "completed"
  /\ meeting.artifacts.finalDecision = 2
  /\ meeting.status = "completed"
  /\ meeting.usage >= meeting.budget

AwaitingRun(th) == th.kind = "run" /\ th.pc = "await"

\* The catch block of runMeeting has marked the meeting failed with the
\* error of the generation call (a queued response then starts from failed).
MarkedFailed ==
  /\ meeting'.error = "generation failed"
  /\ IF Started = {} THEN meeting'.status = "failed"
     ELSE \A u \in Started : threads'[u].prev = "failed"

\* C10 as stated: a generation call that fails during any stage of a primary
\* run ends the run, the meeting being marked failed with its error.
C10_AnyStage ==
  [][\A t \in Threads :
       AwaitingRun(threads[t]) =>
         IF threads'[t].pc = "done" THEN threads'[t].end = "failed" /\ MarkedFailed
         ELSE \A i \in 1 .. Len(threads'[t].calls) : ~threads'[t].calls[i].failed]_vars

\* C10 (generation failure in a primary run): a generation call that fails
\* during a stage other than BRAIN_INTERVENTION ends the run: no stage is
\* executed after it, the meeting is marked failed and its error is the
\* error of the call.  A run goes on after a failed generation call only in
\* BRAIN_INTERVENTION.
C10_OutsideBrain ==
  [][\A t \in Threads :
       AwaitingRun(threads[t]) =>
         IF threads'[t].pc = "done" THEN threads'[t].end = "failed" /\ MarkedFailed
         ELSE \A i \in 1 .. Len(threads'[t].calls) :
                threads'[t].calls[i].failed =>
                  threads'[t].calls[i].stage = "brain_intervention"]_vars

\* A run has failed in a stage after PRIME_SUMMARY and left the meeting
\* failed with the error of the generation call.
C10_Witness ==
  /\ Len(threads) = 1
  /\ threads[1].kind = "run" /\ threads[1].end = "failed"
  /\ meeting.status = "failed"
  /\ meeting.error = "generation failed"
  /\ meeting.artifacts.summary = 1
  /\ meeting.artifacts.finalDecision = 0

\* C11 (continuation failure): when a continuation started on a completed
\* meeting ends, the status it leaves is completed or failed, and when it
\* ends on a failed generation call the status is failed and the error is
\* set (a queued response then starts from that status).
C11_ContinuationFailure ==
  [][\A t \in Threads :
       (LateContinuation(threads[t]) /\ threads'[t].pc = "done") =>
         LET left == IF Started = {} THEN {meeting'.status}
                     ELSE {threads'[u].prev : u \in Started}
         IN /\ left \subseteq {"completed", "failed"}
            /\ threads'[t].end = "failed" =>
                 left = {"failed"} /\ meeting'.error # ""]_vars

BrainCalls == {x \in CallIds : CallAt(x).stage = "brain_intervention"}

\* The artifact of BRAIN_INTERVENTION as the run that has just left the
\* stage finds it.
AnalysisLeftBy(x) ==
  IF x[2] = Len(threads[x[1]].calls) /\ threads[x[1]].pc = "pause"
    THEN {meeting.artifacts.brainAnalysis} ELSE {}

\* C12 as stated: after a BRAIN response that cannot be parsed the stage
\* returns PRIME_SUMMARY without a clarification call, its BRAIN message is
\* the fixed placeholder and its artifact the fallback analysis.
C12_Placeholder ==
  \A x \in BrainCalls :
    CallAt(x).parse = "no" =>
      /\ CallAt(x).state = "returned"
      /\ CallAt(x).newStage = "prime_summary"
      /\ CallAt(x).gen = 1
      /\ CallAt(x).brain = "placeholder"
      /\ \A a \in AnalysisLeftBy(x) : a.analysis = "failed" /\ ~a.parsed

\* C12 (BRAIN parse failure): after a BRAIN response that cannot be parsed
\* the stage returns PRIME_SUMMARY without a clarification call and charges
\* the tokens of the response; its BRAIN message is the response itself and
\* its artifact holds the text of the response with no parsed analysis.
\* The placeholder message and the fallback analysis belong to the calls in
\* which a generation call failed.
C12_RawResponse ==
  \A x \in BrainCalls :
    /\ CallAt(x).parse = "no" =>
         /\ CallAt(x).state = "returned"
         /\ CallAt(x).newStage = "prime_summary"
         /\ CallAt(x).gen = 1
         /\ CallAt(x).brain = "response"
         /\ CallAt(x).charged \in TokenCosts
         /\ \A a \in AnalysisLeftBy(x) :
              a = [by |-> x[1], analysis |-> "response", parsed |-> FALSE]
    /\ CallAt(x).brain = "placeholder" <=> CallAt(x).failed

\* A run has just left BRAIN_INTERVENTION on a response that was not parsed.
C12_Witness ==
  \E x \in BrainCalls :
    /\ CallAt(x).parse = "no"
    /\ threads[x[1]].kind = "run"
    /\ threads[x[1]].stage = "prime_summary"
    /\ AnalysisLeftBy(x) # {}
    /\ CallAt(x).nmsgs = 2

\* C13 (usage is monotone): no step of a run or a continuation, whether it
\* executes, skips or fails a stage, makes meeting.usage smaller.
C13_UsageMonotone == [][meeting'.usage >= meeting.usage]_vars

\* The usage has gone through executed stages, the BRAIN fallback, a forced
\* decision and a continuation.
C13_Witness ==
  /\ meeting.usage > FallbackTokens
  /\ meeting.degradation = "severe"
  /\ meeting.artifacts.brainAnalysis.analysis = "failed"
  /\ \E t \in Threads : threads[t].kind = "cont" /\ threads[t].pc = "done"

StartedKinds == {threads'[u].kind : u \in Started}

\* C14 as stated: the status goes from pending to running and from running
\* to completed or failed, and a completed or failed status never changes.
C14_Terminal ==
  [][meeting'.status # meeting.status =>
       \/ meeting.status = "pending" /\ meeting'.status = "running"
       \/ meeting.status = "running" /\ meeting'.status \in {"completed", "failed"}]_vars

\* C14 (status lifecycle): the status never returns to pending.  It becomes
\* running only in a step that starts a run or a continuation; completed
\* only when a run leaves its stage loop or a continuation of a meeting that
\* was not failed ends; failed only when a run ends in its catch block or a
\* continuation of a failed meeting ends.
C14_Lifecycle ==
  [][meeting'.status # meeting.status =>
       \/ /\ meeting'.status = "running"
          /\ StartedKinds # {}
       \/ /\ meeting'.status = "completed"
          /\ \E t \in Threads :
               \/ /\ threads[t].kind = "run"
                  /\ threads[t].pc \notin {"summarizing", "done"}
                  /\ threads'[t].pc \in {"summarizing", "done"}
                  /\ threads'[t].end # "failed"
               \/ /\ threads[t].kind = "cont"
                  /\ threads[t].pc # "done"
                  /\ threads[t].prev # "failed"
                  /\ threads'[t].pc = "done"
       \/ /\ meeting'.status = "failed"
          /\ \E t \in Threads :
               \/ /\ threads[t].kind = "run"
                  /\ threads[t].pc # "done"
                  /\ threads'[t].end = "failed"
               \/ /\ threads[t].kind = "cont"
                  /\ threads[t].pc # "done"
                  /\ threads[t].prev = "failed"
                  /\ threads'[t].pc = "done"]_vars

\* A continuation has set a completed meeting running again.
C14_Witness ==
  /\ meeting.status = "running"
  /\ \E t \in Threads : LateContinuation(threads[t])

\* C15 (summarizer runs once): generateMeetingSummaries is called at most
\* once for the meeting.
C15_SummarizedOnce == memories.calls <= 1

SummaryTypes == {"meeting_summary", "decision", "controversy"}

\* C16 (no summaries on failure): while the status is failed, no meeting
\* summary, decision or controversy record has been written.
C16_NoSummariesOnFailure ==
  meeting.status = "failed" => memories.records \cap SummaryTypes = {}

(***************************************************************************)
(* ContextCompressor (services/memory/types.ts)                            *)
(*                                                                         *)
(* A message is valued by its identity, its type, its role, the length of  *)
(* its content in characters and, for a compressed message, the roles its  *)
(* content has a group for and the metadata.originalCount.  The identity of a compressed message is the    *)
(* negated clock value it was built at.                                    *)
(***************************************************************************)
MaxMessages == 9       \* CompressSpec: length of the history given to compress
MaxPasses == 2         \* CompressSpec: applications of compress

TOKEN_THRESHOLD == 8000

PRESERVE_RECENT == 5

PRESERVE_EARLY_SUMMARY == 3

\* The types and roles of the messages of a history.
MessageKinds ==
  { [type |-> "system", role |-> "SYSTEM"],
    [type |-> "statement", role |-> "CRITIC"] }

\* The content lengths of the messages of a history: about 75 and about
\* 1000 tokens.
ContentLengths == {300, 4004}

Message(id, kind, length) ==
  [id |-> id, type |-> kind.type, role |-> kind.role, length |-> length,
   groups |-> {}, originalCount |-> 0]

\* The histories of the compression tests: 30 statements of 'A'.repeat(300)
\* or of 'Test message '.repeat(50).
ScenarioMessages == 30

ScenarioLengths == {300, 650}

TriggerScenarios ==
  { [i \in 1 .. ScenarioMessages |->
       Message(i, [type |-> "statement", role |-> "TEST"], length)] :
    length \in ScenarioLengths }

\* The history of the role grouping test: 'CRITIC message 1', ...
RoleScenario ==
  << Message(1, [type |-> "statement", role |-> "CRITIC"], 16),
     Message(2, [type |-> "statement", role |-> "CRITIC"], 16),
     Message(3, [type |-> "statement", role |-> "FINANCE"], 17),
     Message(4, [type |-> "statement", role |-> "WORKS"], 15) >>

\* The histories of the model: every message is an object of its own, the
\* messages of a history have contents of the same length.
Histories ==
  UNION { { [i \in 1 .. n |-> Message(i, kinds[i], length)] :
            kinds \in [1 .. n -> MessageKinds], length \in ContentLengths } :
          n \in 0 .. MaxMessages }
    \cup TriggerScenarios \cup {RoleScenario}

\* Math.ceil(text.length / 4)
estimateTokens(length) == (length + 3) \div 4

RECURSIVE estimateTotalTokens(_)
estimateTotalTokens(messages) ==
  IF messages = << >> THEN 0
  ELSE estimateTokens(Head(messages).length) + estimateTotalTokens(Tail(messages))

needsCompression(messages) == estimateTotalTokens(messages) > TOKEN_THRESHOLD

RECURSIVE sumLengths(_)
sumLengths(lengths) ==
  IF lengths = << >> THEN 0 ELSE Head(lengths) + sumLengths(Tail(lengths))

\* Array.prototype.join: the length of the joined string.
join(lengths, separator) ==
  IF lengths = << >> THEN 0
  ELSE sumLengths(lengths) + separator * (Len(lengths) - 1)

\* summarizeMessages: the first 100 characters of each content, joined by
\* ' | '.
summarizeMessages(role, messages) ==
  join(SelectSeq([i \in 1 .. Len(messages) |-> Min(messages[i].length, 100)],
                 LAMBDA c : c > 0), 3)

\* `**${role}**: ${summary}` for each role of the Map.
RECURSIVE summaries(_, _)
summaries(roles, messages) ==
  IF roles = {} THEN << >>
  ELSE LET role == CHOOSE r \in roles : TRUE
           msgs == SelectSeq(messages, LAMBDA m : m.type # "system" /\ m.role = role)
       IN << Len(role) + 6 + summarizeMessages(role, msgs) >>
            \o summaries(roles \ {role}, messages)

\* Array.prototype.indexOf: the first position of the object, from 0, or -1.
arrayIndexOf(array, x) ==
  IF \E i \in 1 .. Len(array) : array[i] = x
    THEN (CHOOSE i \in 1 .. Len(array) :
            array[i] = x /\ \A j \in 1 .. i - 1 : array[j] # x) - 1
    ELSE -1

\* A slice that leaves out the last element of the range.
sliceShort(array, start, end) == SubSeq(array, start + 1, end - 1)

\* Array.prototype.slice(start, end), positions from 0, end excluded.
slice(array, start, end) == SubSeq(array, start + 1, end)

\* The content is the header, the summaries joined by two line feeds and
\* two line feeds; the contents of the model have no key point.
compressMiddleSection(messages, now) ==
  LET roleMessages ==
        {messages[i].role : i \in {j \in 1 .. Len(messages) : messages[j].type # "system"}}
  IN [id |-> 0 - now, type |-> "compressed", role |-> "SYSTEM",
      length |-> 10 + join(summaries(roleMessages, messages), 2) + 2,
      groups |-> roleMessages,
      originalCount |-> Len(messages)]

\* A threshold one lower: a history of PRESERVE_RECENT + 2 messages is compressed.
tooShortStrict(messages) == Len(messages) < PRESERVE_RECENT + 2

\* messages.length <= this.PRESERVE_RECENT + 2
tooShort(messages) == Len(messages) <= PRESERVE_RECENT + 2

compress(messages, now) ==
  IF tooShort(messages) THEN messages
  ELSE
    LET isEarlySystem(m) ==
          m.type = "system" /\ arrayIndexOf(messages, m) < PRESERVE_EARLY_SUMMARY
        earlySystemMessages == SelectSeq(messages, isEarlySystem)
        middleStart == PRESERVE_EARLY_SUMMARY
        middleEnd == Len(messages) - PRESERVE_RECENT
        middleMessages == slice(messages, middleStart, middleEnd)
        recentMessages == slice(messages, Len(messages) - PRESERVE_RECENT, Len(messages))
    IN earlySystemMessages
         \o (IF Len(middleMessages) > 0
               THEN << compressMiddleSection(middleMessages, now) >> ELSE << >>)
         \o recentMessages

(***************************************************************************)
(* CompressSpec: compress applied to a history, then to what it returned.  *)
(***************************************************************************)
\* Nothing of the meeting, the scheduler or the retriever takes part.
MeetingIdle ==
  /\ SchedInit
  /\ notifier = "delivers"
  /\ callerReq = [c \in Callers |-> 0]
  /\ meeting = NewMeeting(0, << >>)
  /\ validating = 0
  /\ runRequests = 0
  /\ threads = << >>
  /\ responses = 0
  /\ memories = NoMemories

compressIfNeeded(messages, now) ==
  IF estimateTotalTokens(messages) <= TOKEN_THRESHOLD THEN messages
  ELSE compress(messages, now)

CompressIfNeeded ==
  /\ ~needed.called
  /\ needed' = [called |-> TRUE, messages |-> compressIfNeeded(history, passes + 1)]
  /\ UNCHANGED <<history, compressed, passes, retrieverVars, summarizerVars, schedVars, callerReq,
                 meetingVars, notifier, db>>

Compress ==
  /\ passes < MaxPasses
  /\ compressed' = compress(IF passes = 0 THEN history ELSE compressed, passes + 1)
  /\ passes' = passes + 1
  /\ UNCHANGED <<history, needed, retrieverVars, summarizerVars, schedVars, callerReq, meetingVars, notifier, db>>

CompressInit ==
  /\ MeetingIdle
  /\ db = emptyDb
  /\ SummarizerIdle
  /\ history \in Histories
  /\ compressed = << >>
  /\ passes = 0
  /\ needed = NotCalled
  /\ stored = << >>
  /\ query = [topic |-> FALSE, roles |-> << >>, types |-> {}]
  /\ retrieved = << >>
  /\ packaged = << >>

CompressNext == Compress \/ CompressIfNeeded

CompressSpec == CompressInit /\ [][CompressNext]_vars

\* The compressed messages compress has just built, by position.
Built == {i \in 1 .. Len(compressed) : compressed[i].id < 0}

\* The positions of the output that hold a message of the input.
Verbatim == {i \in 1 .. Len(compressed) : compressed[i] \in Range(history)}

\* C17 (compression conservation): when compress has produced a compressed
\* message, its originalCount plus the number of input messages kept
\* verbatim is the number of input messages.
C17_Conservation ==
  (passes = 1 /\ Built # {}) =>
    \A i \in Built :
      compressed[i].originalCount + Cardinality(Verbatim) = Len(history)

C19_Shape ==
  (passes = 1 /\ Len(history) > 7) =>
    /\ Cardinality(Built) = 1
    /\ \A i \in Built :
         /\ SubSeq(compressed, i + 1, Len(compressed))
              = SubSeq(history, Len(history) - 4, Len(history))
         /\ \A j \in 1 .. i - 1 : compressed[j] \in Range(history)
         /\ compressed[i].originalCount
              = Cardinality({j \in 1 .. Len(history) : history[j] \notin Range(compressed)})

(***************************************************************************)
(* ContextRetriever (services/memory/contextRetriever.ts)                  *)
(*                                                                         *)
(* A record of the store is valued by its type, the length of its content, *)
(* whether its content contains the topic of the query, the roles of its   *)
(* frontmatter and its age in days.  Relevances are in hundredths.         *)
(***************************************************************************)
MaxRecords == 3        \* RetrieveSpec: records in the store

maxTokens == 3000

\* query.minRelevance || 0.6
DefaultMinRelevance == 60

TopicWeight == 40

RoleWeight == 30

TypeWeight == 20

TimeWeight == 10

ValidDays == 365

\* The types in the order retrieveContext lists them.
RetrievedTypes == << "meeting_summary", "decision", "controversy", "learning" >>

\* The records of the model: written today, naming no role, with a content
\* of 6000 or 12000 characters that contains the topic.
MemoryKinds ==
  { [type |-> type, length |-> length, topical |-> TRUE, roles |-> {}, days |-> 0] :
      type \in Range(RetrievedTypes), length \in {6000, 12000} }

Stores == UNION { [1 .. n -> MemoryKinds] : n \in 0 .. MaxRecords }

\* The queries of the model, without their cutoff.
Queries ==
  { [topic |-> topic, roles |-> << >>, types |-> {"decision"}] : topic \in BOOLEAN }

\* The cutoffs of the model; 0 stands for a cutoff of 0 or none at all.
Cutoffs == {0, 45, 65}

calculateRelevance(q, memory) ==
  LET topicScore == IF q.topic /\ memory.topical THEN TopicWeight ELSE 0
      matchingRoles == SelectSeq(q.roles, LAMBDA r : r \in memory.roles)
      roleScore == IF Len(matchingRoles) > 0
                     THEN (RoleWeight * Len(matchingRoles)) \div Len(q.roles) ELSE 0
      typeScore == IF memory.type \in q.types THEN TypeWeight ELSE 0
      timeScore == IF memory.days >= ValidDays THEN 0
                   ELSE (TimeWeight * (ValidDays - memory.days)) \div ValidDays
  IN Min(100, topicScore + roleScore + typeScore + timeScore)

listMemories(records, type) == SelectSeq(records, LAMBDA memory : memory.type = type)

\* items.sort((a, b) => b.relevance - a.relevance): stable, highest first.
RECURSIVE sortByRelevance(_)
sortByRelevance(items) ==
  IF items = << >> THEN << >>
  ELSE LET top == CHOOSE v \in {items[i].relevance : i \in 1 .. Len(items)} :
                    \A i \in 1 .. Len(items) : items[i].relevance <= v
       IN SelectSeq(items, LAMBDA item : item.relevance = top)
            \o sortByRelevance(SelectSeq(items, LAMBDA item : item.relevance # top))

\* A cap that refuses nothing.
fitsAlways(totalTokens, tokens) == TRUE

\* totalTokens + tokens <= maxTokens
fits(totalTokens, tokens) == totalTokens + tokens <= maxTokens

\* The four loops of retrieveContext over the records still to scan.
RECURSIVE scan(_, _, _, _)
scan(q, minRelevance, records, acc) ==
  IF records = << >> THEN acc
  ELSE LET memory == Head(records)
           relevance == calculateRelevance(q, memory)
           tokens == estimateTokens(memory.length)
       IN IF relevance >= minRelevance /\ fits(acc.totalTokens, tokens)
            THEN scan(q, minRelevance, Tail(records),
                      [items |-> Append(acc.items,
                                        [type |-> IF memory.type = "decision"
                                                    THEN "previous_decision" ELSE memory.type,
                                         relevance |-> relevance, tokens |-> tokens]),
                       totalTokens |-> acc.totalTokens + tokens])
            ELSE scan(q, minRelevance, Tail(records), acc)

\* A cutoff of 0 is replaced by the default as well.
minRelevanceOf(cutoff) == IF cutoff = 0 THEN DefaultMinRelevance ELSE cutoff

retrieveContext(records, q, cutoff) ==
  LET listed == listMemories(records, RetrievedTypes[1]) \o listMemories(records, RetrievedTypes[2])
                  \o listMemories(records, RetrievedTypes[3]) \o listMemories(records, RetrievedTypes[4])
      found == scan(q, minRelevanceOf(cutoff), listed, [items |-> << >>, totalTokens |-> 0])
  IN [items |-> sortByRelevance(found.items), totalTokens |-> found.totalTokens]

\* What buildContextPackage returns; its frontmatter is what it writes to
\* the store as a context_package, a type retrieveContext does not list.
buildContextPackage(records, q, cutoff) ==
  LET found == retrieveContext(records, q, cutoff)
  IN [frontmatter |-> [type |-> "context_package", itemCount |-> Len(found.items),
                       totalTokens |-> found.totalTokens],
      items |-> found.items,
      tokens |-> found.totalTokens]

(***************************************************************************)
(* RetrieveSpec: retrieveContext and buildContextPackage called with the   *)
(* cutoffs of the model, in any order, for one store content and one       *)
(* query.                                                                  *)
(***************************************************************************)
NotRetrieved == [items |-> << >>, totalTokens |-> 0 - 1]

NotPackaged ==
  [frontmatter |-> [type |-> "context_package", itemCount |-> 0, totalTokens |-> 0 - 1],
   items |-> << >>, tokens |-> 0 - 1]

Retrieve(cutoff) ==
  /\ retrieved[cutoff] = NotRetrieved
  /\ retrieved' = [retrieved EXCEPT ![cutoff] = retrieveContext(stored, query, cutoff)]
  /\ UNCHANGED <<stored, query, packaged, compressorVars, summarizerVars, schedVars, callerReq, meetingVars, notifier, db>>

\* buildContextPackage, with the call of retrieveContext it starts with.
BuildPackage(cutoff) ==
  /\ packaged[cutoff] = NotPackaged
  /\ retrieved' = [retrieved EXCEPT ![cutoff] = retrieveContext(stored, query, cutoff)]
  /\ packaged' = [packaged EXCEPT ![cutoff] = buildContextPackage(stored, query, cutoff)]
  /\ UNCHANGED <<stored, query, compressorVars, summarizerVars, schedVars, callerReq, meetingVars, notifier, db>>

RetrieveInit ==
  /\ MeetingIdle
  /\ db = emptyDb
  /\ SummarizerIdle
  /\ history = << >>
  /\ compressed = << >>
  /\ passes = 0
  /\ needed = NotCalled
  /\ stored \in Stores
  /\ query \in Queries
  /\ retrieved = [cutoff \in Cutoffs |-> NotRetrieved]
  /\ packaged = [cutoff \in Cutoffs |-> NotPackaged]

RetrieveNext ==
  \/ \E cutoff \in Cutoffs : Retrieve(cutoff)
  \/ \E cutoff \in Cutoffs : BuildPackage(cutoff)

RetrieveSpec == RetrieveInit /\ [][RetrieveNext]_vars

\* C20 (retrieval monotonicity): of two calls of retrieveContext on the
\* same store and query, the one with the higher minRelevance returns at
\* most as many items as the other.
C20_Monotone ==
  \A m1, m2 \in Cutoffs :
    (m1 <= m2 /\ retrieved[m1] # NotRetrieved /\ retrieved[m2] # NotRetrieved) =>
      Len(retrieved[m2].items) <= Len(retrieved[m1].items)

RECURSIVE sumTokens(_)
sumTokens(items) ==
  IF items = << >> THEN 0 ELSE Head(items).tokens + sumTokens(Tail(items))

\* The records of the store that a cutoff lets through.
Qualifying(cutoff) ==
  {i \in 1 .. Len(stored) :
     calculateRelevance(query, stored[i]) >= minRelevanceOf(cutoff)}

\* C21 (retrieval cap): the totalTokens of retrieveContext and the tokens of
\* buildContextPackage never exceed 3000, and each is the sum of the token
\* estimates of the records returned.
C21_Cap ==
  \A cutoff \in Cutoffs :
    /\ retrieved[cutoff] # NotRetrieved =>
         /\ retrieved[cutoff].totalTokens <= 3000
         /\ retrieved[cutoff].totalTokens = sumTokens(retrieved[cutoff].items)
    /\ packaged[cutoff] # NotPackaged =>
         /\ packaged[cutoff].tokens <= 3000
         /\ packaged[cutoff].tokens = sumTokens(packaged[cutoff].items)
         /\ packaged[cutoff].frontmatter.totalTokens = packaged[cutoff].tokens

\* A package filled to the cap, a qualifying record having been refused.
C21_Witness ==
  \E cutoff \in Cutoffs :
    /\ packaged[cutoff] # NotPackaged
    /\ packaged[cutoff].tokens = 3000
    /\ retrieved[cutoff] # NotRetrieved
    /\ Len(retrieved[cutoff].items) < Cardinality(Qualifying(cutoff))

\* The decisions retrieveContext would accept if it listed them first.
DecisionsScannedFirst(cutoff) ==
  sortByRelevance(scan(query, minRelevanceOf(cutoff), listMemories(stored, "decision"),
                       [items |-> << >>, totalTokens |-> 0]).items)

\* C22 (scan priority): decisions are scanned before the other types, so the
\* decisions returned are those that qualify and fit the cap among the
\* decisions alone; none is left out because of a meeting summary.
C22_DecisionsFirst ==
  \A cutoff \in Cutoffs :
    retrieved[cutoff] # NotRetrieved =>
      SelectSeq(retrieved[cutoff].items, LAMBDA item : item.type = "previous_decision")
        = DecisionsScannedFirst(cutoff)

(***************************************************************************)
(* meetingSummarizer.ts and markdownStore.ts: the records written for a    *)
(* completed meeting                                                       *)
(***************************************************************************)
\* What `${id}` gives for a property the object does not have.
undefined == <<"undefined">>

Dates == {1, 2}

\* meeting.artifacts.brainAnalysis: absent, or with a list of disagreements
\* (named 1, 2, ... here).
NoBrainAnalysis == [present |-> FALSE, disagreements |-> << >>]

BrainAnalyses ==
  {NoBrainAnalysis} \cup
  {[present |-> TRUE, disagreements |-> [d \in 1 .. k |-> d]] : k \in 0 .. MaxDisagreements}

\* The completed meetings: with or without a final decision and an analysis.
CompletedMeetings ==
  {ms \in [1 .. MaxMeetings -> [id : 1 .. MaxMeetings, finalDecision : BOOLEAN,
                                brainAnalysis : BrainAnalyses]] :
     \A i \in 1 .. MaxMeetings : ms[i].id = i}

\* MeetingSummarizer.generateMeetingSummary: the id is a field of the
\* frontmatter only.
generateMeetingSummary(m, date) ==
  [type |-> "meeting_summary",
   frontmatter |-> [id |-> <<"meeting-summary", date, m.id>>, type |-> "meeting_summary",
                    meetingId |-> m.id, date |-> date, disagreement |-> 0],
   content |-> <<"meeting_summary", m.id>>]

\* MeetingSummarizer.extractDecisionSummary
extractDecisionSummary(m, date) ==
  [type |-> "decision",
   frontmatter |-> [id |-> <<"decision", date, m.id>>, type |-> "decision",
                    meetingId |-> m.id, date |-> date, disagreement |-> 0],
   content |-> <<"decision", m.id>>]

\* MeetingSummarizer.extractControversies: one memory per disagreement; the
\* ids made of Date.now() and a random suffix are taken as never colliding.
extractControversies(m, date) ==
  IF ~m.brainAnalysis.present \/ Len(m.brainAnalysis.disagreements) = 0 THEN << >>
  ELSE [i \in 1 .. Len(m.brainAnalysis.disagreements) |->
          [type |-> "controversy",
           frontmatter |-> [id |-> <<"controversy", m.id, m.brainAnalysis.disagreements[i]>>,
                            type |-> "controversy", meetingId |-> m.id, date |-> date,
                            disagreement |-> m.brainAnalysis.disagreements[i]],
           content |-> <<"controversy", m.id, m.brainAnalysis.disagreements[i]>>]]

\* The expression memory.id of generateMeetingSummaries.
memoryId(memory) == IF "id" \in DOMAIN memory THEN memory.id ELSE undefined

\* MarkdownStore.getMemoryPath
getMemoryPath(type, id) ==
  << CASE type = "meeting_summary" -> "long-term/meetings"
       [] type = "decision" -> "long-term/decisions"
       [] type = "controversy" -> "long-term/controversies"
       [] OTHER -> "",
     id >>

\* fs.writeFile: the file of that path is created or replaced.
writeFile(fs, filePath, data) ==
  {f \in fs : f.path # filePath} \cup {[path |-> filePath, data |-> data]}

\* MarkdownStore.writeMemory(type, id, frontmatter, content)
storeWriteMemory(fs, type, id, frontmatter, content) ==
  writeFile(fs, getMemoryPath(type, id),
            [frontmatter |-> [frontmatter EXCEPT !.id = id, !.type = type],
             content |-> content])

\* The memories generateMeetingSummaries builds for m, in writing order.
summaryMemories(m, date) ==
  << generateMeetingSummary(m, date) >>
    \o (IF m.finalDecision THEN << extractDecisionSummary(m, date) >> ELSE << >>)
    \o extractControversies(m, date)

RECURSIVE writeAll(_, _)
writeAll(fs, memories_) ==
  IF memories_ = << >> THEN fs
  ELSE writeAll(storeWriteMemory(fs, Head(memories_).type, memoryId(Head(memories_)),
                                 Head(memories_).frontmatter, Head(memories_).content),
                Tail(memories_))

\* MeetingSummarizer.generateMeetingSummaries
generateMeetingSummaries(fs, m, date) == writeAll(fs, summaryMemories(m, date))

Summarized(i) == \E w \in written : w.frontmatter.meetingId = i

\* runMeeting hands a completed meeting to the summarizer.
Summarize(i, date) ==
  /\ ~Summarized(i)
  /\ files' = generateMeetingSummaries(files, meetings[i], date)
  /\ written' = written \cup Range(summaryMemories(meetings[i], date))
  /\ UNCHANGED <<meetings, compressorVars, retrieverVars, schedVars, callerReq, meetingVars, notifier, db>>

SummaryInit ==
  /\ MeetingIdle
  /\ db = emptyDb
  /\ history = << >>
  /\ compressed = << >>
  /\ passes = 0
  /\ needed = NotCalled
  /\ stored = << >>
  /\ query = [topic |-> FALSE, roles |-> << >>, types |-> {}]
  /\ retrieved = << >>
  /\ packaged = << >>
  /\ meetings \in CompletedMeetings
  /\ files = {}
  /\ written = {}

SummaryNext == \E i \in 1 .. MaxMeetings, date \in Dates : Summarize(i, date)

SummarySpec == SummaryInit /\ [][SummaryNext]_vars

\* The files of the store that hold a memory of that type of meeting i.
filesOf(i, type) ==
  {f \in files : f.data.frontmatter.type = type /\ f.data.frontmatter.meetingId = i}

\* C23 (append-only records): every memory generateMeetingSummaries has
\* written, for any meeting and any disagreement, is still in a file of the
\* store.
C23_AppendOnly ==
  \A w \in written :
    \E f \in files :
      /\ f.data.frontmatter.type = w.type
      /\ f.data.frontmatter.meetingId = w.frontmatter.meetingId
      /\ f.data.frontmatter.disagreement = w.frontmatter.disagreement
      /\ f.data.content = w.content

\* C24 (summarizer outputs): right after generateMeetingSummaries on a
\* meeting whose analysis lists k disagreements (none when the analysis is
\* absent), the store holds exactly k controversy records of that meeting
\* and exactly one meeting summary of it, and a decision record of it
\* exactly when the meeting has a final decision.
C24_Outputs ==
  [][\A i \in 1 .. MaxMeetings :
       (~Summarized(i) /\ Summarized(i)') =>
         /\ Cardinality(filesOf(i, "controversy"))' = Len(meetings[i].brainAnalysis.disagreements)
         /\ Cardinality(filesOf(i, "meeting_summary"))' = 1
         /\ (filesOf(i, "decision")' # {}) <=> meetings[i].finalDecision]_vars

\* The runs that have left the loop of runMeeting and set the status.
LoopLeft == {t \in Threads : threads[t].kind = "run" /\ threads[t].pc = "summarizing"}

\* C25 as stated: a run without a failed generation call leaves its loop
\* after at most six executeStage calls, completed and with a final
\* decision, and with degradation severe if the usage had reached the
\* budget when PRIME_DECISION was entered.
C25_SevereAtDecision ==
  \A t \in LoopLeft :
    (\A i \in 1 .. Len(threads[t].calls) : ~threads[t].calls[i].failed) =>
      /\ Len(threads[t].calls) <= 6
      /\ meeting.status = "completed"
      /\ meeting.artifacts.finalDecision # 0
      /\ LastCall(threads[t]).usage >= meeting.budget => meeting.degradation = "severe"

\* C27 (push-notifier independence): a run ends failed only on a failed
\* generation call or a failed memory write, never on what the push
\* notifier does: with every generation call and every write succeeding the
\* run ends completed even if every notification attempt throws.
C27_NotifierIndependent ==
  \A t \in Threads :
    (threads[t].kind = "run" /\ threads[t].pc = "done" /\ threads[t].end = "failed") =>
      meeting.error \in {"generation failed", "summaries failed"}

\* A stage is executing: a run or a continuation is inside executeStage,
\* waiting for a generation call.
StageExecuting == \E t \in Threads : threads[t].pc = "await"

\* C26 (exclusive ownership of the message list): a user response received
\* while a stage is executing appends nothing to meeting.messages.
C26_ExclusiveMessages ==
  [][(StageExecuting /\ responses' # responses) =>
       meeting'.messages = meeting.messages]_vars

\* The step is the arrival of a user response that starts no continuation
\* and is not queued, which is what happens to an empty or whitespace one.
IgnoredResponse ==
  /\ responses' # responses
  /\ Len(threads') = Len(threads)
  /\ meeting'.pendingUserResponses = meeting.pendingUserResponses

\* C28 (malformed continuation): an empty or whitespace user response
\* executes no stage, queues nothing, appends no message and leaves the
\* meeting as it was, whether or not a run is in progress.
C28_BlankIgnored ==
  [][IgnoredResponse => (meeting' = meeting /\ threads' = threads /\ reqs' = reqs)]_vars

\* C29 (compression trigger): needsCompression is true of the 30-statement
\* histories of the tests, and whenever needsCompression is true of a
\* history compressIfNeeded returns strictly fewer messages than it was
\* given.
C29_Trigger ==
  needed.called =>
    /\ history \in TriggerScenarios => needsCompression(history)
    /\ needsCompression(history) => Len(needed.messages) < Len(history)

\* The roles of the statements of a list of messages.
statementRoles(messages) ==
  {messages[i].role : i \in {j \in 1 .. Len(messages) : messages[j].type = "statement"}}

\* C30 (role grouping): compress applied to a history with statements of
\* two or more roles returns a list with a compressed message, which has
\* one group per role of the messages it stands for.
C30_RoleGroups ==
  (passes = 1 /\ Cardinality(statementRoles(history)) >= 2) =>
    \E i \in 1 .. Len(compressed) :
      /\ compressed[i].type = "compressed"
      /\ compressed[i].groups =
           {history[j].role : j \in {k \in 1 .. Len(history) :
                                       /\ history[k] \notin Range(compressed)
                                       /\ history[k].type # "system"}}

\* The last n elements of a list, or the whole list if it has fewer.
lastOf(array, n) ==
  SubSeq(array, IF Len(array) > n THEN Len(array) - n + 1 ELSE 1, Len(array))

NoPressure(t) ==
  \A i \in 1 .. Len(threads[t].calls) :
    /\ 10 * threads[t].calls[i].usage < 9 * meeting.budget
    /\ ~threads[t].calls[i].failed

SPEAK_ROLES == <<"CRITIC", "FINANCE", "WORKS">>

defaultBudgets ==
  [max_total_tokens |-> 12000, per_role_max_output_tokens |-> 500,
   prime_max_output_tokens |-> 800, clerk_max_output_tokens |-> 350]

\* The budgets given to createMeeting; defaultBudgets is what an input without budget gets.
BudgetInputs ==
  {defaultBudgets} \cup
  [max_total_tokens : {0, 170, 200, 240, 400}, per_role_max_output_tokens : {20, 80},
   prime_max_output_tokens : {10, 100}, clerk_max_output_tokens : {60}]

\* The lengths of the issue texts given to createMeeting.
IssueLengths == {9, 60}

\* JSON.stringify of what makeIssueBrief, makeRelevance, makePlan, makeSpeech, buildSummary and
\* buildFinalDecision return: the number of UTF-16 units (topic: issue_text.slice(0, 50)).
jsonLength ==
  [issueBrief |-> [issue \in IssueLengths |-> 210 + Min(issue, 50)],
   relevance |-> [CRITIC |-> 84, FINANCE |-> 85, WORKS |-> 84],
   plan |-> 146,
   speech |-> [CRITIC |-> 254, FINANCE |-> 257, WORKS |-> 258],
   summary |-> 364,
   finalDecision |-> [degraded \in BOOLEAN |-> IF degraded THEN 394 ELSE 378]]

\* tokens.estimateTokens: Math.ceil(text.length / 4), 0 for an empty text
storeEstimateTokens(length) == IF length = 0 THEN 0 ELSE (length + 3) \div 4

createMeeting(input) ==
  [status |-> "CREATED",
   issue_text |-> input.issue_text,
   budget_max_total_tokens |-> input.budget.max_total_tokens,
   budget_per_role_max_output_tokens |-> input.budget.per_role_max_output_tokens,
   budget_prime_max_output_tokens |-> input.budget.prime_max_output_tokens,
   budget_clerk_max_output_tokens |-> input.budget.clerk_max_output_tokens,
   usage_total_tokens |-> 0,
   usage_cost_usd |-> 0,
   degrade_notes |-> << >>]

stageTokens(m, role) ==
  IF role = "PRIME" THEN m.budget_prime_max_output_tokens
  ELSE IF role = "CLERK" THEN m.budget_clerk_max_output_tokens
  ELSE m.budget_per_role_max_output_tokens

\* usage_cost_usd is kept in millionths: Number((usage / 1000 * 0.0004).toFixed(6)).
\* No caller passes a note.
pushUsage(s, extraTokens) ==
  LET total == s.meeting.usage_total_tokens + extraTokens
  IN  [s EXCEPT !.meeting.usage_total_tokens = total, !.meeting.usage_cost_usd = (4 * total + 5) \div 10]

nextSeq(messages) ==
  IF messages = << >> THEN 1
  ELSE (CHOOSE i \in 1 .. Len(messages) : \A j \in 1 .. Len(messages) : messages[j].seq <= messages[i].seq) + 1

\* A message is kept as its seq, sender_role and message_type, the length of its content_json
\* and, for FINAL, the references of the decision.
addMessage(s, role, type, length, references) ==
  [s EXCEPT !.messages = Append(@, [seq |-> nextSeq(@), sender_role |-> role, message_type |-> type,
                                    content_json |-> [length |-> length, references |-> references]])]

addLlmCall(s, role, stage, output_tokens) ==
  [s EXCEPT !.llm_calls = Append(@, [role |-> role, stage |-> stage, output_tokens |-> output_tokens])]

\* The meeting has one artifact record; a field says whether it was saved.
saveArtifact(s, field) ==
  [s EXCEPT !.meeting_artifacts =
     IF @ = << >> THEN <<[f \in {"issue_brief", "speak_plan", "round_summary", "final_decision"} |-> f = field]>>
     ELSE <<[@[1] EXCEPT ![field] = TRUE]>>]

\* usage_total_tokens / budget_max_total_tokens >= tenths / 10: the quotient of a positive
\* usage by 0 is Infinity, that of 0 by 0 is NaN.
ratioAtLeast(m, tenths) ==
  IF m.budget_max_total_tokens = 0 THEN m.usage_total_tokens > 0
  ELSE 10 * m.usage_total_tokens >= tenths * m.budget_max_total_tokens

\* A simulator without the 90% check.
nearBudgetNever(m) == FALSE

\* if (budgetRatio >= 0.9)
nearBudget(m) == ratioAtLeast(m, 9)

\* Stages 1 to 3: the issue brief, the relevance of every speaking role, the plan.
\* makePlan: every relevance is related and has the same score, the sort keeps the order.
planned(s0) ==
  LET m == s0.meeting
      s1 == saveArtifact(
              addLlmCall(
                addMessage(
                  pushUsage(s0, Min(stageTokens(m, "PRIME"),
                                    storeEstimateTokens(jsonLength.issueBrief[m.issue_text]))),
                  "PRIME", "ISSUE_BRIEF", jsonLength.issueBrief[m.issue_text], << >>),
                "PRIME", "PARSE_ISSUE", stageTokens(m, "PRIME")),
              "issue_brief")
      relevance[k \in 0 .. Len(SPEAK_ROLES)] ==
        IF k = 0 THEN s1
        ELSE LET role == SPEAK_ROLES[k]
             IN  addLlmCall(
                   addMessage(
                     pushUsage(relevance[k - 1],
                               Min(stageTokens(m, role), storeEstimateTokens(jsonLength.relevance[role]))),
                     role, "RELEVANCE", jsonLength.relevance[role], << >>),
                   role, "RELEVANCE", stageTokens(m, role))
      s2 == relevance[Len(SPEAK_ROLES)]
  IN  [saveArtifact(
         addLlmCall(
           addMessage(pushUsage(s2, storeEstimateTokens(jsonLength.plan)),
                      "PRIME", "PLAIN_TEXT", jsonLength.plan, << >>),
           "PRIME", "PLAN", 120),
         "speak_plan")
       EXCEPT !.ordered_roles = SPEAK_ROLES]

\* One turn of stage 4 that passed the budget checks.
speech(s, role) ==
  addLlmCall(
    addMessage(
      pushUsage([s EXCEPT !.usedPoints = @ \cup {role}],
                Min(stageTokens(s.meeting, role), storeEstimateTokens(jsonLength.speech[role]))),
      role, "SPEECH", jsonLength.speech[role], << >>),
    role, "SPEAK", stageTokens(s.meeting, role))

\* Stage 4, from the k-th role of the plan on.
RECURSIVE speak(_, _)
speak(s, k) ==
  IF k > Len(s.ordered_roles) THEN s
  ELSE IF ratioAtLeast(s.meeting, 10)
       THEN [s EXCEPT !.degraded = TRUE, !.meeting.degrade_notes = Append(@, "100%")]
  ELSE IF nearBudget(s.meeting)
       THEN [s EXCEPT !.degraded = TRUE, !.meeting.degrade_notes = Append(@, "90%")]
  ELSE speak(speech(s, s.ordered_roles[k]), k + 1)

\* references: the second point of CRITIC, the first of FINANCE and of WORKS, P1 for a role
\* that did not speak.
buildFinalDecision(usedPoints, degraded) ==
  [references |->
     <<[role |-> "CRITIC", point |-> IF "CRITIC" \in usedPoints THEN "C2" ELSE "P1"],
       [role |-> "FINANCE", point |-> IF "FINANCE" \in usedPoints THEN "F1" ELSE "P1"],
       [role |-> "WORKS", point |-> IF "WORKS" \in usedPoints THEN "W1" ELSE "P1"]>>,
   length |-> jsonLength.finalDecision[degraded]]

\* Stages 5 and 6 and the final status.
concluded(s4) ==
  LET m == s4.meeting
      s5 == saveArtifact(
              addLlmCall(
                addMessage(pushUsage(s4, storeEstimateTokens(jsonLength.summary)),
                           "CLERK", "SUMMARY", jsonLength.summary, << >>),
                "CLERK", "SUMMARY", stageTokens(m, "CLERK")),
              "round_summary")
      finalDecision == buildFinalDecision(s4.usedPoints, s4.degraded)
      s6 == saveArtifact(
              addLlmCall(
                addMessage(pushUsage(s5, storeEstimateTokens(finalDecision.length)),
                           "PRIME", "FINAL", finalDecision.length, finalDecision.references),
                "PRIME", "FINAL", stageTokens(m, "PRIME")),
              "final_decision")
  IN  [s6 EXCEPT !.meeting.status = "COMPLETED"]

\* What the run works on: the store, usedPoints, degraded and the plan.
started(store) ==
  [meeting |-> [store.meetings[1] EXCEPT !.status = "RUNNING"],
   messages |-> store.messages, llm_calls |-> store.llm_calls,
   meeting_artifacts |-> store.meeting_artifacts,
   usedPoints |-> {}, degraded |-> FALSE, ordered_roles |-> << >>]

simulateMeeting(store) ==
  LET s == concluded(speak(planned(started(store)), 1))
  IN  [meetings |-> <<s.meeting>>, messages |-> s.messages, llm_calls |-> s.llm_calls,
       meeting_artifacts |-> s.meeting_artifacts]

\* The runs of the meeting so far: each one adds one FINAL call.
simulations == Cardinality({i \in 1 .. Len(db.llm_calls) : db.llm_calls[i].stage = "FINAL"})

\* POST /api/meetings
SimCreateMeeting(input) ==
  /\ db.meetings = << >>
  /\ db' = [db EXCEPT !.meetings = <<createMeeting(input)>>]
  /\ UNCHANGED <<schedVars, callerReq, meetingVars, memoryVars, notifier>>

\* POST /api/meetings/:id/run
SimRunMeeting ==
  /\ db.meetings # << >>
  /\ db.meetings[1].status # "RUNNING"
  /\ simulations < MaxSimulations
  /\ db' = simulateMeeting(db)
  /\ UNCHANGED <<schedVars, callerReq, meetingVars, memoryVars, notifier>>

SimulatorInit ==
  /\ MeetingIdle
  /\ MemoryIdle
  /\ db = emptyDb

SimulatorNext ==
  \/ \E budget \in BudgetInputs, issue \in IssueLengths :
       SimCreateMeeting([issue_text |-> issue, budget |-> budget])
  \/ SimRunMeeting

SimulatorSpec == SimulatorInit /\ [][SimulatorNext]_vars

\* The messages the step has appended.
appended == SubSeq(db'.messages, Len(db.messages) + 1, Len(db'.messages))

\* The run when the k-th planned role is about to speak, every role before it having spoken.
RECURSIVE beforeTurn(_, _)
beforeTurn(store, k) ==
  IF k = 1 THEN planned(started(store)) ELSE speech(beforeTurn(store, k - 1), SPEAK_ROLES[k - 1])

\* C33: a call of the simulator's runMeeting on a meeting that is not RUNNING leaves it COMPLETED
\* with a SUMMARY and a FINAL message appended, the FINAL message citing at least two points of
\* speaking departments; when the usage has reached 90% of the budget before a planned role speaks,
\* neither that role nor a later one speaks and a degrade note is added.
C33_Simulator ==
  [][(db.meetings # << >> /\ db'.messages # db.messages) =>
       /\ db.meetings[1].status # "RUNNING"
       /\ db'.meetings[1].status = "COMPLETED"
       /\ Len(db'.messages) >= Len(db.messages) + 2
       /\ SubSeq(db'.messages, 1, Len(db.messages)) = db.messages
       /\ db'.messages[Len(db'.messages) - 1].message_type = "SUMMARY"
       /\ db'.messages[Len(db'.messages)].message_type = "FINAL"
       /\ LET references == db'.messages[Len(db'.messages)].content_json.references
          IN  /\ Len(references) >= 2
              /\ \A i \in 1 .. Len(references) : \E k \in 1 .. Len(SPEAK_ROLES) : references[i].role = SPEAK_ROLES[k]
       /\ \A k \in 1 .. Len(SPEAK_ROLES) :
            LET m == beforeTurn(db, k).meeting
            IN  (IF m.budget_max_total_tokens = 0 THEN m.usage_total_tokens > 0
                 ELSE 10 * m.usage_total_tokens >= 9 * m.budget_max_total_tokens)
                => /\ \A j \in k .. Len(SPEAK_ROLES), i \in 1 .. Len(appended) :
                        ~(appended[i].message_type = "SPEECH" /\ appended[i].sender_role = SPEAK_ROLES[j])
                   /\ Len(db'.meetings[1].degrade_notes) > Len(db.meetings[1].degrade_notes)]_vars

\* A run was cut at 90% of the budget after CRITIC had spoken.
C33_Witness ==
  /\ db.meetings # << >>
  /\ db.meetings[1].status = "COMPLETED"
  /\ db.meetings[1].degrade_notes = <<"90%">>
  /\ \E i \in 1 .. Len(db.messages) : db.messages[i].message_type = "SPEECH"
  /\ \E i \in 1 .. Len(db.messages) : db.messages[i].message_type = "FINAL"

\* C34 as stated (abstention in FOLLOW_UP_DISCUSSION): of the roles of an executed follow-up round,
\* those whose response holds a no-response signal add no message, every role's call is charged
\* and every role takes its turn.
C34_Abstention ==
  \A t \in Threads : \A i \in 1 .. Len(threads[t].calls) :
    LET c == threads[t].calls[i]
    IN  (c.stage = "follow_up_discussion" /\ c.state = "returned" /\ c.gen > 0) =>
          /\ c.nmsgs = 1 + c.gen - c.signals
          /\ c.gen = Len(getDiscussionRoles(meeting))
          /\ \E tokens \in TokenCosts : c.charged = c.gen * tokens

\* C35 as stated (minimum viable deliberation): a meeting that is completed
\* and whose degradation is not severe has had PRIME_SUMMARY executed, which
\* stored the summary, and the run that completed it has executed
\* DEPARTMENT_SPEECHES.
C35_MinimumDeliberation ==
  (meeting.status = "completed" /\ meeting.degradation # "severe") =>
    /\ meeting.artifacts.summary # 0
    /\ \A t \in LoopLeft : \E i \in 1 .. Len(threads[t].calls) :
         /\ threads[t].calls[i].stage = "department_speeches"
         /\ threads[t].calls[i].state = "returned"
         /\ threads[t].calls[i].gen > 0

\* The order of the degradation levels.
level(degradation) == IF degradation = "severe" THEN 2 ELSE IF degradation = "partial" THEN 1 ELSE 0

\* C36 (degradation never improves): no step of a run or a continuation lowers
\* meeting.degradation in the order none < partial < severe; a severe degradation
\* is not overwritten by partial and a recorded one is not cleared.
C36_NeverImproves == [][level(meeting'.degradation) >= level(meeting.degradation)]_vars

\* A stage was skipped as partial, a later one forced the decision as severe,
\* and PRIME_DECISION was then executed without touching the level.
C36_Witness ==
  /\ meeting.degradation = "severe"
  /\ \E t \in Threads :
       /\ \E i \in 1 .. Len(threads[t].calls) : threads[t].calls[i].degradation = "partial"
       /\ \E i \in 1 .. Len(threads[t].calls) : threads[t].calls[i].degradation = "severe"
       /\ \E i \in 1 .. Len(threads[t].calls) :
            /\ threads[t].calls[i].stage = "prime_decision"
            /\ threads[t].calls[i].state = "returned"

\* C37 as stated (complete charging): the amount an executed stage adds to meeting.usage is the
\* sum of the token costs of the generation calls that completed during the stage, the
\* clarification call of BRAIN_INTERVENTION included.
C37_CompleteCharging ==
  \A x \in CallIds :
    (CallAt(x).state = "returned" /\ CallAt(x).gen > 0) =>
      \E tokens \in TokenCosts :
        CallAt(x).charged = tokens * (CallAt(x).gen - (IF CallAt(x).failed THEN 1 ELSE 0))

(***************************************************************************)
(* TranscriptSpec: meeting.messages under the pushes of the drivers and     *)
(* the context reads of executeDepartmentSpeeches.  history is              *)
(* meeting.messages, needed what compressIfNeeded returned last, passes     *)
(* the number of reads.                                                     *)
(***************************************************************************)
\* What is pushed: the statement of a stage, which enforceSpeechLimit has cut
\* at 50 characters, or the response of the user, of any length.
PushedMessages ==
  { [kind |-> [type |-> "statement", role |-> "CRITIC"], length |-> 50],
    [kind |-> [type |-> "response", role |-> "USER"], length |-> 4004] }

\* meeting.messages.push
TranscriptPush(m) ==
  /\ Len(history) < MaxMessages
  /\ history' = Append(history, Message(Len(history) + 1, m.kind, m.length))
  /\ UNCHANGED <<needed, compressed, passes, retrieverVars, summarizerVars, schedVars, callerReq,
                 meetingVars, notifier, db>>

\* A read that puts the list it built in the place of meeting.messages.
ContextReadReplacing ==
  /\ passes < MaxPasses
  /\ needed' = [called |-> TRUE, messages |-> compressIfNeeded(history, passes + 1)]
  /\ history' = compressIfNeeded(history, passes + 1)
  /\ passes' = passes + 1
  /\ UNCHANGED <<compressed, retrieverVars, summarizerVars, schedVars, callerReq,
                 meetingVars, notifier, db>>

\* const contextMessages = await this.compressor.compressIfNeeded(meeting)
ContextRead ==
  /\ passes < MaxPasses
  /\ needed' = [called |-> TRUE, messages |-> compressIfNeeded(history, passes + 1)]
  /\ passes' = passes + 1
  /\ UNCHANGED <<history, compressed, retrieverVars, summarizerVars, schedVars, callerReq,
                 meetingVars, notifier, db>>

TranscriptInit ==
  /\ MeetingIdle
  /\ MemoryIdle
  /\ db = emptyDb

TranscriptNext ==
  \/ \E m \in PushedMessages : TranscriptPush(m)
  \/ ContextRead

TranscriptSpec == TranscriptInit /\ [][TranscriptNext]_vars

\* C38 (append-only transcript): every step leaves the earlier content of
\* meeting.messages as a prefix of its later content, and a step in which
\* compressIfNeeded builds its list leaves meeting.messages as it was: the
\* compressed list is another list.
C38_TranscriptAppendOnly ==
  [][/\ Len(history') >= Len(history)
     /\ SubSeq(history', 1, Len(history)) = history
     /\ passes' # passes => history' = history]_vars

\* compressIfNeeded has returned a shorter list with a compressed message,
\* and the transcript holds every message pushed.
C38_Witness ==
  /\ needed.called
  /\ Len(needed.messages) < Len(history)
  /\ \E i \in 1 .. Len(needed.messages) : needed.messages[i].type = "compressed"
  /\ \A i \in 1 .. Len(history) : history[i].id = i

\* The threads that await the response of a role in a discussion round.
Speaking ==
  {t \in Threads : /\ threads[t].pc = "await"
                   /\ threads[t].stage \in {"department_speeches", "follow_up_discussion"}}

\* The role that was asked last and the roles still to be asked, in their order.
Turns(t) == <<threads[t].role>> \o threads[t].roles

\* The selected roles that are neither PRIME, BRAIN nor CLERK.
Departments ==
  {toUpperCase[meeting.selectedRoleIds[i]] : i \in 1 .. Len(meeting.selectedRoleIds)}
    \ {"PRIME", "BRAIN", "CLERK"}

\* C39 as stated: an execution of DEPARTMENT_SPEECHES or FOLLOW_UP_DISCUSSION
\* ends only when every discussion role has been submitted: no role is
\* left to ask when the thread leaves the round.
C39_EveryRole ==
  [][\A t \in Speaking :
       ~(/\ t \in Speaking'
         /\ Len(threads'[t].calls) = Len(threads[t].calls))
       => threads[t].roles = << >>]_vars

\* C39 (speaking order is a permutation): while a discussion round runs, the role asked and the
\* roles still to be asked are distinct discussion roles, none of them PRIME, BRAIN or CLERK, and
\* with the roles already asked they are as many as the discussion roles; the next request is for
\* the head of the roles still to be asked and leaves the order of the others as it was; the
\* thread has exactly one request whose result it has not received; a round returns only when
\* no role is left to ask.
C39_Permutation ==
  [][/\ \A t \in Speaking' :
          /\ \A i, j \in 1 .. Len(Turns(t)') : i # j => Turns(t)'[i] # Turns(t)'[j]
          /\ Range(Turns(t)') \subseteq Departments'
          /\ LastCall(threads'[t]).gen + Len(threads'[t].roles) = Cardinality(Departments')
          /\ Cardinality({r \in 1 .. Len(reqs') : reqs'[r].caller = t /\ ~reqs'[r].consumed}) = 1
     /\ \A t \in Speaking :
          /\ (/\ t \in Speaking'
              /\ Len(threads'[t].calls) = Len(threads[t].calls)
              /\ LastCall(threads'[t]).gen # LastCall(threads[t]).gen)
             => /\ Turns(t)' = Tail(Turns(t))
                /\ LastCall(threads'[t]).gen = LastCall(threads[t]).gen + 1
          /\ (/\ Len(threads'[t].calls) >= Len(threads[t].calls)
              /\ threads'[t].calls[Len(threads[t].calls)].state = "returned")
             => threads[t].roles = << >>]_vars

\* The last role of a follow-up round is being asked, after the other one.
C39_Witness ==
  \E t \in Speaking :
    /\ threads[t].stage = "follow_up_discussion"
    /\ threads[t].roles = << >>
    /\ LastCall(threads[t]).gen = Cardinality(Departments)
    /\ LastCall(threads[t]).gen >= 2

(***************************************************************************)
(* SchedLiveSpec: SchedSpec under the scheduling of the event loop.  A     *)
(* promise reaction that is ready is run: the then() handler that starts a *)
(* task whose predecessor has settled, and the continuation of a caller    *)
(* whose awaited task has settled.  Nothing makes a generation call        *)
(* settle.                                                                 *)
(***************************************************************************)
SchedLiveSpec ==
  /\ SchedSpecInit
  /\ [][SchedNext]_vars
  /\ \A r \in 1 .. MaxRequests : WF_vars(Start(r))
  /\ \A c \in Callers : WF_vars(CallerResume(c))

\* Task r waits on the chain.
Waiting(r) == r <= Len(reqs) /\ reqs[r].state = "waiting"

\* The generation call of task r is in flight.
InFlight(r) == r <= Len(reqs) /\ reqs[r].state = "running"

\* Task r has settled and its caller has not yet received the outcome.
Outcome(r) == r <= Len(reqs) /\ reqs[r].state \in Settled /\ ~reqs[r].consumed

\* The caller of task r has received its outcome.
Received(r) == r <= Len(reqs) /\ reqs[r].consumed

\* C40 (scheduler liveness): a request that waits for ever waits behind a generation call
\* submitted before it that is in flight for ever, so it starts if every earlier call settles;
\* what its caller is given is the result or the failure of its own generation call, and the
\* caller does receive it (a settled task does not stay unreceived: once received it stays
\* so); while a generation call is in flight every request submitted after it, by whatever
\* caller, waits.
C40_Liveness ==
  /\ \A r \in 1 .. MaxRequests :
       <>[]Waiting(r) => \E q \in 1 .. r - 1 : <>[]InFlight(q)
  /\ \A r \in 1 .. MaxRequests : []<>~Outcome(r)
  /\ [](\A r \in 1 .. MaxRequests :
          /\ Outcome(r) => (reqs[r].state = "ok" \/ reqs[r].err = r)
          /\ \A q \in 1 .. r - 1 : (InFlight(q) /\ r <= Len(reqs)) => Waiting(r))

\* The third request is in flight after the callers of the first two have
\* received their outcomes.
C40_Witness ==
  /\ Received(1)
  /\ Received(2)
  /\ InFlight(3)

====
